---- MODULE Spec2Model ----
(***************************************************************************)
(* Model of the gosh SSH server core (package sshserver): the exec payload *)
(* codec, the public-key authenticator, the channel router handleChannel   *)
(* and the line editor handleShell, for one session channel.               *)
(*                                                                         *)
(* Byte strings ([]byte and Go string alike) are sequences of naturals in  *)
(* 0..255.  Every call the server makes on the channel, on a request or on *)
(* the command handler is appended to the log `events`, in program order.  *)
(***************************************************************************)
EXTENDS Integers, Sequences, FiniteSets, TLC

(***************************************************************************)
(* Bounds of the model.                                                    *)
(***************************************************************************)
MaxPayloadLen == 6    \* longest exec payload drawn by InitExec
MaxRequests == 2      \* channel requests the peer sends on the channel
MaxData == 1          \* data bytes the peer types on the channel (SpecSession)
MaxScriptLen == 3     \* longest input stream drawn by InitShell
MaxEntries == 2       \* lines of the authorized_keys file
MaxAttempts == 2      \* authentication attempts observed
MaxStarts == 2        \* calls of Start
MaxConns == 1         \* connections the listener accepts
MaxAcceptErrs == 1    \* accept errors while the listener is open
MaxServed == 2        \* connections accepted by the running server (SpecServe)
MaxGlobal == 2        \* global requests the peer sends on a connection
MaxRegistrations == 2 \* calls of RegisterCommand by the program
MaxRecorded == 102    \* messages recorded in the chat room
MaxCommands == 9      \* commands sent to the game handler
MaxChannels == 3      \* channels with a concurrent exec request
MaxPathLen == 2       \* components of a path argument
MaxDepth == 2         \* depth of the current directory below the root

(***************************************************************************)
(* Program constants.                                                      *)
(***************************************************************************)
LenFieldSize == 4     \* bytes of the big-endian length field
IntBits == 64         \* width of Go's int on the 64-bit build
ReadBufSize == 1024   \* make([]byte, 1024) in handleShell
CR == 13              \* '\r'
LF == 10              \* '\n'
DEL == 127            \* 0x7f
BS == 8               \* 0x08
SP == 32              \* 0x20
TAB == 9              \* '\t'
maxMsgs == 100        \* ChatRoom.maxMsgs set by NewChatRoom
maxAttempts == 7      \* Data["maxAttempts"] set by startGuessGame

(***************************************************************************)
(* Exec payload codec.                                                     *)
(*                                                                         *)
(* A uint32 is kept as its two 16-bit halves [hi, lo] (value hi * 2^16 +   *)
(* lo), so that every declared length up to 2^32 - 1 is represented        *)
(* exactly.                                                                *)
(***************************************************************************)
DeclaredLengthLE(payload) ==
    [hi |-> payload[4] * 256 + payload[3], lo |-> payload[2] * 256 + payload[1]]

\* uint32(payload[3]) | uint32(payload[2])<<8 | uint32(payload[1])<<16 |
\* uint32(payload[0])<<24 : the four bytes occupy disjoint bit ranges.
DeclaredLength(payload) ==
    [hi |-> payload[1] * 256 + payload[2], lo |-> payload[3] * 256 + payload[4]]

\* length == 0
IsZero(u) == u.hi = 0 /\ u.lo = 0

\* int(length) < 0: a uint32 with its top bit set converts to a negative
\* int when int has 32 bits, and to itself when int has 64 bits.
IntIsNegative(u) == IntBits = 32 /\ u.hi >= 32768

\* int(length) > n, for 0 <= n < 2^16 (n is len(payload) - 4).
IntGreater(u, n) == ~IntIsNegative(u) /\ (u.hi > 0 \/ u.lo > n)

ParseFailed == [ok |-> FALSE, cmd |-> << >>, panic |-> FALSE]

ParseNoZeroCheck(payload) ==
    IF Len(payload) < LenFieldSize
    THEN ParseFailed
    ELSE LET length == DeclaredLength(payload) IN
         IF IntGreater(length, Len(payload) - LenFieldSize)
         THEN ParseFailed
         ELSE IF length.hi > 0
              THEN [ok |-> FALSE, cmd |-> << >>, panic |-> TRUE]
              ELSE [ok |-> TRUE,
                    cmd |-> SubSeq(payload, LenFieldSize + 1,
                                   LenFieldSize + length.lo),
                    panic |-> FALSE]

ParseToEnd(payload) ==
    IF Len(payload) < LenFieldSize
    THEN ParseFailed
    ELSE LET length == DeclaredLength(payload) IN
         IF IsZero(length) \/ IntGreater(length, Len(payload) - LenFieldSize)
         THEN ParseFailed
         ELSE IF length.hi > 0
              THEN [ok |-> FALSE, cmd |-> << >>, panic |-> TRUE]
              ELSE [ok |-> TRUE,
                    cmd |-> SubSeq(payload, LenFieldSize + 1, Len(payload)),
                    panic |-> FALSE]

ParseNoBoundCheck(payload) ==
    IF Len(payload) < LenFieldSize
    THEN ParseFailed
    ELSE LET length == DeclaredLength(payload) IN
         IF IsZero(length)
         THEN ParseFailed
         ELSE IF length.hi > 0 \/ length.lo > Len(payload) - LenFieldSize
              THEN [ok |-> TRUE,
                    cmd |-> SubSeq(payload, LenFieldSize + 1, Len(payload)),
                    panic |-> FALSE]
              ELSE [ok |-> TRUE,
                    cmd |-> SubSeq(payload, LenFieldSize + 1,
                                   LenFieldSize + length.lo),
                    panic |-> FALSE]

\* parseExecPayload.  (command, nil) is [ok |-> TRUE, cmd |-> command];
\* ("", error) is ParseFailed; panic marks the slice expression
\* payload[4 : 4+length] being out of range, which the length check rules
\* out unless int(length) is negative.
parseExecPayload(payload) ==
    IF Len(payload) < LenFieldSize
    THEN ParseFailed
    ELSE LET length == DeclaredLength(payload) IN
         IF IsZero(length) \/ IntGreater(length, Len(payload) - LenFieldSize)
         THEN ParseFailed
         ELSE IF length.hi > 0
              THEN [ok |-> FALSE, cmd |-> << >>, panic |-> TRUE]
              ELSE [ok |-> TRUE,
                    cmd |-> SubSeq(payload, LenFieldSize + 1,
                                   LenFieldSize + length.lo),
                    panic |-> FALSE]

\* The SSH "string" encoding of a command: a 4-byte big-endian length and
\* the bytes of the command (commands of the model are shorter than 2^16).
EncodeExec(c) ==
    <<0, 0, Len(c) \div 256, Len(c) % 256>> \o c

(***************************************************************************)
(* State.                                                                  *)
(***************************************************************************)
VARIABLES
    cmdHandler,   \* Server.cmdHandler: TRUE when a handler is set, FALSE when nil
    requests,     \* the channel's request stream: requests sent and not yet taken
    reqClosed,    \* the request stream has been closed (channel or connection ended)
    reqSent,      \* number of requests the peer has sent
    routerPc,     \* handleChannel: "awaiting" | "returned" | "panicked"
    shells,       \* the handleShell goroutines started on the channel, in order
    chanData,     \* data bytes sent by the peer and not yet read
    chanRead,     \* what a read finds once chanData is drained: "open" | "eof" | "err"
    dataSent,     \* number of data bytes the peer has sent
    typed,        \* the data bytes the peer has sent on the channel, in order
    events,       \* log of the calls made by the server, in order
    authFile,     \* the authorized_keys file: its lines, or Unreadable
    authResult,   \* outcome of the latest validatePublicKey call, or NoAttempt
    authCount,    \* number of authentication attempts so far
    listener,     \* Server.listener: "nil" | "open" | "closed"
    done,         \* Server.done has been closed
    wg,           \* Server.wg: the WaitGroup's counter
    acceptPc,     \* acceptConnections: "none" | "select" | "accept" | "got" | "err" | "returned"
    stopPc,       \* Stop: "idle" | "closing" | "waiting" | "returned" | "failed"
                  \* | "panicked"
    startResult,  \* what the latest call of Start returned: "none" | "ok" | "error"
    startCount,   \* number of calls of Start so far
    acceptErrs,   \* number of transient accept errors so far
    conns,        \* the accepted connections, in the order they were accepted
    config,       \* the Config handed to NewServer
    server,       \* what NewServer returned: "none" | "built" | "failed" | "panicked"
    commands,     \* DefaultCommandHandler.commands: name -> registered function
    defLast,      \* the latest call of DefaultCommandHandler.Execute and its result
    defCount,     \* number of calls made on the DefaultCommandHandler
    currentDir,   \* FileServerHandler.currentDir, a sequence of path components
    fsLast,       \* the latest call of FileServerHandler.Execute and its result
    game,         \* GameHandler: CurrentGame, the guess game's data, score, gamesWon
    gameLast,     \* the latest call of GameHandler.Execute and its result
    gameCount,    \* number of commands sent to the GameHandler
    users,        \* ChatRoom.users: the names of the users in the room
    messages,     \* ChatRoom.messages: the history, each message by its rank
    recorded,     \* number of messages recorded in the room so far
    counter,      \* CustomHandler.counter, shared by every channel
    execs,        \* concurrent exec requests, one per channel: position and log
    globalReqs,   \* the global requests of the connection, sent and not yet taken
    globalLog,    \* log of what handleGlobalRequests received and replied, in order
    writing,      \* the map assignment RegisterCommand is in the middle of, or NoWrite
    lookups,      \* per channel, the map read its Execute is in the middle of
    mapFault      \* the runtime has thrown "concurrent map read and map write"

vars == <<cmdHandler, requests, reqClosed, reqSent, routerPc, shells, chanData,
          chanRead, dataSent, typed, events, authFile, authResult, authCount,
          listener, done, wg, acceptPc, stopPc, startResult, startCount,
          acceptErrs, conns, config, server, commands, defLast, defCount,
          currentDir, fsLast, game, gameLast, gameCount, users, messages,
          recorded, counter, execs, globalReqs, globalLog, writing, lookups,
          mapFault>>

chanVars == <<cmdHandler, requests, reqClosed, reqSent, routerPc, shells,
              chanData, chanRead, dataSent, typed, events>>

lifeVars == <<listener, done, wg, acceptPc, stopPc, startResult, startCount,
              acceptErrs, conns>>

cfgVars == <<config, server>>

defVars == <<commands, defLast, defCount>>

fsVars == <<currentDir, fsLast>>

gameVars == <<game, gameLast, gameCount>>

chatVars == <<users, messages, recorded>>

execVars == <<counter, execs>>

globVars == <<globalReqs, globalLog>>

raceVars == <<writing, lookups, mapFault>>

appVars == <<cfgVars, defVars, fsVars, gameVars, chatVars, execVars, globVars,
             raceVars>>

authVars == <<authFile, authResult, authCount>>

(***************************************************************************)
(* The command handler (interface CommandHandler).  Execute may return any *)
(* output and any status; the model draws the pair from ExecResults.       *)
(***************************************************************************)
ExecResults ==
    { [output |-> <<111, 107>>, status |-> 0],
      [output |-> <<33>>, status |-> 1] }

\* GetPrompt(): "$ "
Prompt == <<36, SP>>

\* GetWelcomeMessage(): "Hi"
WelcomeMessage == <<72, 105>>

(***************************************************************************)
(* Events.  who is 0 for handleChannel and i for the i-th handleShell      *)
(* goroutine.  Fields an event does not use hold a fixed filler.           *)
(***************************************************************************)
Router == 0

Ev(op, who, type, data, ok, status) ==
    [op |-> op, who |-> who, type |-> type, data |-> data, ok |-> ok,
     status |-> status, out |-> << >>]

\* s.logger.Printf("Received channel request: %s", req.Type)
EvRecv(req) == Ev("recv", Router, req.type, req.payload, FALSE, 0)
\* req.Reply(ok, nil)
EvReply(ok) == Ev("reply", Router, "", << >>, ok, 0)
\* s.cmdHandler.Execute(cmd), with the result the handler returned
EvExecute(who, cmd, r) ==
    [Ev("execute", who, "", cmd, FALSE, r.status) EXCEPT !.out = r.output]
\* channel.Write(data)
EvWrite(who, data) == Ev("write", who, "", data, FALSE, 0)
\* go s.handleShell(channel)
EvSpawn == Ev("spawn", Router, "", << >>, FALSE, 0)
\* channel.SendRequest("exit-status", false, ssh.Marshal(struct{Status uint32}{status}))
EvExit(status) == Ev("exit-status", Router, "", << >>, FALSE, status)
\* channel.Close()
EvClose(who) == Ev("close", who, "", << >>, FALSE, 0)

sendExitStatusZero(status) == <<EvExit(0)>>

sendExitStatus(status) == <<EvExit(status)>>

(***************************************************************************)
(* handleChannel: the handling of one request taken from the stream.       *)
(* r is the result the handler returns if Execute is called.  The value is *)
(* the events appended, the goroutine's next position and whether a        *)
(* handleShell goroutine is started.                                       *)
(***************************************************************************)
Stay(evs) == [evs |-> evs, pc |-> "awaiting", spawn |-> FALSE]

ExecCaseReturnOnError(req, handler, r) ==
    IF ~handler
    THEN Stay(<<EvReply(FALSE)>>)
    ELSE LET p == parseExecPayload(req.payload) IN
         IF p.panic
         THEN [evs |-> << >>, pc |-> "panicked", spawn |-> FALSE]
         ELSE IF ~p.ok
         THEN [evs |-> <<EvReply(FALSE), EvClose(Router)>>,
               pc |-> "returned", spawn |-> FALSE]
         ELSE [evs |-> <<EvExecute(Router, p.cmd, r),
                         EvWrite(Router, r.output \o <<LF>>),
                         EvReply(TRUE)>>
                       \o sendExitStatus(r.status)
                       \o <<EvClose(Router)>>,
               pc |-> "returned", spawn |-> FALSE]

ExecCase(req, handler, r) ==
    IF ~handler
    THEN Stay(<<EvReply(FALSE)>>)
    ELSE LET p == parseExecPayload(req.payload) IN
         IF p.panic
         THEN [evs |-> << >>, pc |-> "panicked", spawn |-> FALSE]
         ELSE IF ~p.ok
         THEN Stay(<<EvReply(FALSE)>>)
         ELSE [evs |-> <<EvExecute(Router, p.cmd, r),
                         EvWrite(Router, r.output \o <<LF>>),
                         EvReply(TRUE)>>
                       \o sendExitStatus(r.status)
                       \o <<EvClose(Router)>>,
               pc |-> "returned", spawn |-> FALSE]

ShellCaseBlocking(handler) ==
    IF handler
    THEN [evs |-> <<EvReply(TRUE), EvWrite(Router, WelcomeMessage \o <<LF>>),
                    EvSpawn>>,
          pc |-> "in-shell", spawn |-> TRUE]
    ELSE Stay(<<EvReply(TRUE)>>)

ShellCase(handler) ==
    IF handler
    THEN [evs |-> <<EvReply(TRUE), EvWrite(Router, WelcomeMessage \o <<LF>>),
                    EvSpawn>>,
          pc |-> "awaiting", spawn |-> TRUE]
    ELSE Stay(<<EvReply(TRUE)>>)

HandleRequestAckAll(req, handler, r) ==
    LET h == CASE req.type = "shell" -> ShellCase(handler)
               [] req.type = "exec" -> ExecCase(req, handler, r)
               [] OTHER -> Stay(<<EvReply(TRUE)>>)
    IN [h EXCEPT !.evs = <<EvRecv(req)>> \o @]

HandleRequest(req, handler, r) ==
    LET h == CASE req.type = "pty-req" -> Stay(<<EvReply(TRUE)>>)
               [] req.type = "shell" -> ShellCase(handler)
               [] req.type = "exec" -> ExecCase(req, handler, r)
               [] OTHER -> Stay(<<EvReply(FALSE)>>)
    IN [h EXCEPT !.evs = <<EvRecv(req)>> \o @]

NewShell == [pc |-> "start", buf |-> << >>, cmdBuffer |-> << >>]

\* One iteration of `for req := range requests`.
RouterStep ==
    /\ routerPc = "awaiting"
    /\ requests # << >>
    /\ \E r \in ExecResults :
         LET h == HandleRequest(Head(requests), cmdHandler, r) IN
         /\ events' = events \o h.evs
         /\ routerPc' = h.pc
         /\ shells' = IF h.spawn THEN Append(shells, NewShell) ELSE shells
    /\ requests' = Tail(requests)
    /\ UNCHANGED <<cmdHandler, reqClosed, reqSent, chanData, chanRead, dataSent>>
    /\ UNCHANGED <<typed, authVars, lifeVars, appVars>>

\* The request stream is closed and drained: the range loop ends,
\* handleChannel returns and its deferred channel.Close() runs.
RouterEnd ==
    /\ routerPc = "awaiting"
    /\ requests = << >>
    /\ reqClosed
    /\ routerPc' = "returned"
    /\ events' = Append(events, EvClose(Router))
    /\ UNCHANGED <<cmdHandler, requests, reqClosed, reqSent, shells, chanData,
                   chanRead, dataSent>>
    /\ UNCHANGED <<typed, authVars, lifeVars, appVars>>

(***************************************************************************)
(* handleShell: the line editor.                                           *)
(***************************************************************************)
\* s.logger.Printf("Error reading from channel: %v", err)
EvReadError(who) == Ev("read-error", who, "", << >>, FALSE, 0)

EditNoClear(who, cmdBuffer, b, r) ==
    CASE b \in {CR, LF} ->
           IF Len(cmdBuffer) > 0
           THEN [cmdBuffer |-> cmdBuffer,
                 evs |-> <<EvExecute(who, cmdBuffer, r),
                           EvWrite(who, <<CR, LF>> \o r.output \o <<CR, LF>>
                                          \o Prompt)>>]
           ELSE [cmdBuffer |-> cmdBuffer,
                 evs |-> <<EvWrite(who, <<CR, LF>> \o Prompt)>>]
      [] b \in {DEL, BS} ->
           IF Len(cmdBuffer) > 0
           THEN [cmdBuffer |-> SubSeq(cmdBuffer, 1, Len(cmdBuffer) - 1),
                 evs |-> <<EvWrite(who, <<BS, SP, BS>>)>>]
           ELSE [cmdBuffer |-> cmdBuffer, evs |-> << >>]
      [] OTHER ->
           [cmdBuffer |-> Append(cmdBuffer, b), evs |-> <<EvWrite(who, <<b>>)>>]

EditDispatchEmpty(who, cmdBuffer, b, r) ==
    CASE b \in {CR, LF} ->
           [cmdBuffer |-> << >>,
            evs |-> <<EvExecute(who, cmdBuffer, r),
                      EvWrite(who, <<CR, LF>> \o r.output \o <<CR, LF>>
                                     \o Prompt)>>]
      [] b \in {DEL, BS} ->
           IF Len(cmdBuffer) > 0
           THEN [cmdBuffer |-> SubSeq(cmdBuffer, 1, Len(cmdBuffer) - 1),
                 evs |-> <<EvWrite(who, <<BS, SP, BS>>)>>]
           ELSE [cmdBuffer |-> cmdBuffer, evs |-> << >>]
      [] OTHER ->
           [cmdBuffer |-> Append(cmdBuffer, b), evs |-> <<EvWrite(who, <<b>>)>>]

EditEraseOnEmpty(who, cmdBuffer, b, r) ==
    CASE b \in {CR, LF} ->
           IF Len(cmdBuffer) > 0
           THEN [cmdBuffer |-> << >>,
                 evs |-> <<EvExecute(who, cmdBuffer, r),
                           EvWrite(who, <<CR, LF>> \o r.output \o <<CR, LF>>
                                          \o Prompt)>>]
           ELSE [cmdBuffer |-> cmdBuffer,
                 evs |-> <<EvWrite(who, <<CR, LF>> \o Prompt)>>]
      [] b \in {DEL, BS} ->
           [cmdBuffer |-> SubSeq(cmdBuffer, 1, Len(cmdBuffer) - 1),
            evs |-> <<EvWrite(who, <<BS, SP, BS>>)>>]
      [] OTHER ->
           [cmdBuffer |-> Append(cmdBuffer, b), evs |-> <<EvWrite(who, <<b>>)>>]

EditAppendErase(who, cmdBuffer, b, r) ==
    CASE b \in {CR, LF} ->
           IF Len(cmdBuffer) > 0
           THEN [cmdBuffer |-> << >>,
                 evs |-> <<EvExecute(who, cmdBuffer, r),
                           EvWrite(who, <<CR, LF>> \o r.output \o <<CR, LF>>
                                          \o Prompt)>>]
           ELSE [cmdBuffer |-> cmdBuffer,
                 evs |-> <<EvWrite(who, <<CR, LF>> \o Prompt)>>]
      [] b \in {DEL, BS} /\ Len(cmdBuffer) > 0 ->
           [cmdBuffer |-> SubSeq(cmdBuffer, 1, Len(cmdBuffer) - 1),
            evs |-> <<EvWrite(who, <<BS, SP, BS>>)>>]
      [] OTHER ->
           [cmdBuffer |-> Append(cmdBuffer, b), evs |-> <<EvWrite(who, <<b>>)>>]

\* The body of `switch buffer[i]` for one byte b: the new cmdBuffer and the
\* calls made.  r is the result the handler returns if Execute is called.
EditByte(who, cmdBuffer, b, r) ==
    CASE b \in {CR, LF} ->
           IF Len(cmdBuffer) > 0
           THEN [cmdBuffer |-> << >>,
                 evs |-> <<EvExecute(who, cmdBuffer, r),
                           EvWrite(who, <<CR, LF>> \o r.output \o <<CR, LF>>
                                          \o Prompt)>>]
           ELSE [cmdBuffer |-> cmdBuffer,
                 evs |-> <<EvWrite(who, <<CR, LF>> \o Prompt)>>]
      [] b \in {DEL, BS} ->
           IF Len(cmdBuffer) > 0
           THEN [cmdBuffer |-> SubSeq(cmdBuffer, 1, Len(cmdBuffer) - 1),
                 evs |-> <<EvWrite(who, <<BS, SP, BS>>)>>]
           ELSE [cmdBuffer |-> cmdBuffer, evs |-> << >>]
      [] OTHER ->
           [cmdBuffer |-> Append(cmdBuffer, b), evs |-> <<EvWrite(who, <<b>>)>>]

Min(a, b) == IF a < b THEN a ELSE b

\* The goroutine starts: channel.Write([]byte(s.cmdHandler.GetPrompt())).
ShellStart(i) ==
    /\ shells[i].pc = "start"
    /\ shells' = [shells EXCEPT ![i].pc = "read"]
    /\ events' = Append(events, EvWrite(i, Prompt))
    /\ UNCHANGED <<cmdHandler, requests, reqClosed, reqSent, routerPc, chanData,
                   chanRead, dataSent>>
    /\ UNCHANGED <<typed, authVars, lifeVars, appVars>>

\* n, err := channel.Read(buffer) with err == nil: the read takes the first
\* n bytes that are available, at most the size of buffer.
ShellRead(i) ==
    /\ shells[i].pc = "read"
    /\ chanRead # "err"
    /\ chanData # << >>
    /\ \E n \in 1..Min(Len(chanData), ReadBufSize) :
         /\ shells' = [shells EXCEPT ![i].pc = "loop",
                                     ![i].buf = SubSeq(chanData, 1, n)]
         /\ chanData' = SubSeq(chanData, n + 1, Len(chanData))
    /\ UNCHANGED <<cmdHandler, requests, reqClosed, reqSent, routerPc, chanRead,
                   dataSent, events>>
    /\ UNCHANGED <<typed, authVars, lifeVars, appVars>>

\* One iteration of `for i := 0; i < n; i++`.
ShellByte(i) ==
    /\ shells[i].pc = "loop"
    /\ \E r \in ExecResults :
         LET e == EditByte(i, shells[i].cmdBuffer, Head(shells[i].buf), r)
             rest == Tail(shells[i].buf)
         IN /\ shells' = [shells EXCEPT
                            ![i].cmdBuffer = e.cmdBuffer,
                            ![i].buf = rest,
                            ![i].pc = IF rest = << >> THEN "read" ELSE "loop"]
            /\ events' = events \o e.evs
    /\ UNCHANGED <<cmdHandler, requests, reqClosed, reqSent, routerPc, chanData,
                   chanRead, dataSent>>
    /\ UNCHANGED <<typed, authVars, lifeVars, appVars>>

ShellReadEndFlush(i) ==
    /\ shells[i].pc = "read"
    /\ \/ chanRead = "err"
       \/ chanRead = "eof" /\ chanData = << >>
    /\ shells' = [shells EXCEPT ![i].pc = "returned", ![i].cmdBuffer = << >>]
    /\ \E r \in ExecResults :
         events' = events
                   \o (IF chanRead = "err" THEN <<EvReadError(i)>> ELSE << >>)
                   \o (IF shells[i].cmdBuffer # << >>
                       THEN <<EvExecute(i, shells[i].cmdBuffer, r)>>
                       ELSE << >>)
                   \o <<EvClose(i)>>
    /\ UNCHANGED <<cmdHandler, requests, reqClosed, reqSent, routerPc, chanData,
                   chanRead, dataSent>>
    /\ UNCHANGED <<typed, authVars, lifeVars, appVars>>

ShellReadEndTearsDown(i) ==
    /\ shells[i].pc = "read"
    /\ \/ chanRead = "err"
       \/ chanRead = "eof" /\ chanData = << >>
    /\ shells' = [shells EXCEPT ![i].pc = "returned"]
    /\ events' = events
                 \o (IF chanRead = "err" THEN <<EvReadError(i)>> ELSE << >>)
                 \o <<EvClose(i)>>
    /\ conns' = [c \in DOMAIN conns |-> [conns[c] EXCEPT !.peer = FALSE]]
    /\ UNCHANGED <<cmdHandler, requests, reqClosed, reqSent, routerPc, chanData,
                   chanRead, dataSent>>
    /\ UNCHANGED <<listener, done, wg, acceptPc, stopPc, startResult,
                   startCount, acceptErrs>>
    /\ UNCHANGED <<typed, authVars, appVars>>

\* channel.Read returns an error: io.EOF once the data is drained and the
\* peer has ended the stream, another error when the transport has failed.
\* The goroutine returns and its deferred channel.Close() runs.
ShellReadEnd(i) ==
    /\ shells[i].pc = "read"
    /\ \/ chanRead = "err"
       \/ chanRead = "eof" /\ chanData = << >>
    /\ shells' = [shells EXCEPT ![i].pc = "returned"]
    /\ events' = events
                 \o (IF chanRead = "err" THEN <<EvReadError(i)>> ELSE << >>)
                 \o <<EvClose(i)>>
    /\ UNCHANGED <<cmdHandler, requests, reqClosed, reqSent, routerPc, chanData,
                   chanRead, dataSent>>
    /\ UNCHANGED <<typed, authVars, lifeVars, appVars>>

(***************************************************************************)
(* The peer and the transport.                                             *)
(***************************************************************************)
Req(type, payload) == [type |-> type, payload |-> payload]

\* The requests the peer chooses from: the three request types the router
\* knows, one it does not, and an exec payload that decodes and one that
\* does not (InitExec draws every payload).
RequestKinds ==
    { Req("pty-req", << >>), Req("shell", << >>), Req("env", << >>),
      Req("exec", EncodeExec(<<97>>)),
      Req("exec", <<0, 0, 0, 2, 97>>) }

\* The bytes the peer types: a letter, a line terminator, an erase byte.
DataBytes == {97, CR, DEL}

\* channel.Close() has been called by some goroutine of the server.  What
\* the peer sent before it learnt of the close is what is already in
\* flight; it sends nothing more afterwards.
ServerClosed == \E k \in DOMAIN events : events[k].op = "close"

PeerRequest ==
    /\ ~reqClosed
    /\ ~ServerClosed
    /\ reqSent < MaxRequests
    /\ \E k \in RequestKinds : requests' = Append(requests, k)
    /\ reqSent' = reqSent + 1
    /\ UNCHANGED <<cmdHandler, reqClosed, routerPc, shells, chanData, chanRead,
                   dataSent, events>>
    /\ UNCHANGED <<typed, authVars, lifeVars, appVars>>

PeerData ==
    /\ chanRead = "open"
    /\ ~ServerClosed
    /\ dataSent < MaxData
    /\ \E b \in DataBytes :
         /\ chanData' = Append(chanData, b)
         /\ typed' = Append(typed, b)
    /\ dataSent' = dataSent + 1
    /\ UNCHANGED <<cmdHandler, requests, reqClosed, reqSent, routerPc, shells,
                   chanRead, events>>
    /\ UNCHANGED <<authVars, lifeVars, appVars>>

\* The peer ends its data stream (channel EOF).
PeerEOF ==
    /\ chanRead = "open"
    /\ chanRead' = "eof"
    /\ UNCHANGED <<cmdHandler, requests, reqClosed, reqSent, routerPc, shells,
                   chanData, dataSent, events>>
    /\ UNCHANGED <<typed, authVars, lifeVars, appVars>>

\* The peer closes the channel or disconnects: the request stream is closed
\* and reads find the end of the stream.
PeerClose ==
    /\ ~reqClosed
    /\ reqClosed' = TRUE
    /\ chanRead' = IF chanRead = "open" THEN "eof" ELSE chanRead
    /\ UNCHANGED <<cmdHandler, requests, reqSent, routerPc, shells, chanData,
                   dataSent, events>>
    /\ UNCHANGED <<typed, authVars, lifeVars, appVars>>

\* The transport fails: reads on the channel return an error other than EOF.
TransportFail ==
    /\ chanRead = "open"
    /\ chanRead' = "err"
    /\ UNCHANGED <<cmdHandler, requests, reqClosed, reqSent, routerPc, shells,
                   chanData, dataSent, events>>
    /\ UNCHANGED <<typed, authVars, lifeVars, appVars>>

(***************************************************************************)
(* The authenticator.                                                      *)
(*                                                                         *)
(* A public key is its key material, a byte string.  The authorized_keys   *)
(* file is a sequence of lines: a line holds a key, or is a line that      *)
(* holds none (blank, comment, not parseable).  A file that cannot be read *)
(* is Unreadable (os.ReadFile returns an error).                           *)
(***************************************************************************)
Unreadable == [readable |-> FALSE, lines |-> << >>]
Readable(lines) == [readable |-> TRUE, lines |-> lines]

\* The keys of the model.  <<1, 1>> and <<2, 2>> have the same fingerprint;
\* the fingerprints of <<2>> and <<1, 1>> agree on their first digit only.
Keys == { <<1>>, <<2>>, <<1, 1>>, <<2, 2>> }

KeyLine(k) == [valid |-> TRUE, key |-> k]
JunkLine == [valid |-> FALSE, key |-> << >>]
Lines == { KeyLine(k) : k \in Keys } \cup {JunkLine}
Files ==
    { Readable(l) : l \in UNION { [1..n -> Lines] : n \in 0..MaxEntries } }
    \cup {Unreadable}

RECURSIVE SumBytes(_)
SumBytes(k) == IF k = << >> THEN 0 ELSE Head(k) + SumBytes(Tail(k))

\* ssh.FingerprintSHA256(key): a digest of fixed size of the key material.
\* The digest of the model has two digits and, like any digest, collides.
FingerprintSHA256(k) == <<SumBytes(k) % 2, Len(k) % 2>>

\* ssh.ParseAuthorizedKey(in): the first line of `in` that holds a key and
\* the bytes after that line; an error when no line of `in` holds a key.
RECURSIVE ParseAuthorizedKey(_)
ParseAuthorizedKey(in) ==
    IF in = << >>
    THEN [ok |-> FALSE, key |-> << >>, rest |-> << >>]
    ELSE IF Head(in).valid
         THEN [ok |-> TRUE, key |-> Head(in).key, rest |-> Tail(in)]
         ELSE ParseAuthorizedKey(Tail(in))

Rejected == [accepted |-> FALSE, fp |-> << >>]

\* What an attempt keeps of the attempt before it: whether there was one
\* that presented the same key, and whether that one was accepted.
NoEarlier == [same |-> FALSE, accepted |-> FALSE]

NoAttempt ==
    [attempted |-> FALSE, key |-> << >>, file |-> Unreadable,
     result |-> Rejected, earlier |-> NoEarlier]

\* The comparison of the two fingerprints.
FpPrefixEqual(a, b) == a[1] = b[1]

FpEqual(a, b) == a = b

\* The loop `for len(authorizedKeysBytes) > 0` of validatePublicKey.
RECURSIVE MatchLoop(_, _)
MatchLoop(bytes, keyFingerprint) ==
    IF bytes = << >>
    THEN Rejected
    ELSE LET p == ParseAuthorizedKey(bytes) IN
         IF ~p.ok
         THEN Rejected
         ELSE IF FpEqual(FingerprintSHA256(p.key), keyFingerprint)
              THEN [accepted |-> TRUE, fp |-> keyFingerprint]
              ELSE MatchLoop(p.rest, keyFingerprint)

ValidateFailOpen(file, key) ==
    IF ~file.readable
    THEN [accepted |-> TRUE, fp |-> FingerprintSHA256(key)]
    ELSE MatchLoop(file.lines, FingerprintSHA256(key))

\* validatePublicKey: (permissions with "pubkey-fp", nil) is
\* [accepted |-> TRUE, fp |-> fingerprint]; (nil, error) is Rejected.
validatePublicKey(file, key) ==
    IF ~file.readable
    THEN Rejected
    ELSE MatchLoop(file.lines, FingerprintSHA256(key))

\* The file as an earlier attempt read it, kept across attempts.
ReadFileOnce == IF authResult.attempted THEN authResult.file ELSE authFile

\* The file an attempt reads: os.ReadFile of the configured path, whatever
\* earlier attempts read.
ReadFile == authFile

\* An authentication attempt: the handshake calls PublicKeyCallback with
\* the key the peer presents.  The file read and the key are kept with the
\* outcome, and so is the outcome of the attempt before for the same key.
Authenticate ==
    /\ authCount < MaxAttempts
    /\ \E k \in Keys :
         authResult' = [attempted |-> TRUE, key |-> k, file |-> ReadFile,
                        result |-> validatePublicKey(ReadFile, k),
                        earlier |->
                            IF authResult.attempted /\ authResult.key = k
                            THEN [same |-> TRUE,
                                  accepted |-> authResult.result.accepted]
                            ELSE NoEarlier]
    /\ authCount' = authCount + 1
    /\ UNCHANGED authFile
    /\ UNCHANGED <<chanVars, lifeVars, appVars>>

\* The operator edits, replaces or removes the authorized_keys file between
\* two attempts.  Edits that no attempt separates amount to one edit, and
\* the file before the first attempt is any file.
SetFile ==
    /\ authCount < MaxAttempts
    /\ authResult.attempted
    /\ authResult.file = authFile
    /\ \E f \in Files : f # authFile /\ authFile' = f
    /\ UNCHANGED <<authResult, authCount>>
    /\ UNCHANGED <<chanVars, lifeVars, appVars>>

(***************************************************************************)
(* The server's lifecycle: Start, Stop, the accept loop and the goroutines *)
(* of each accepted connection.  A connection is a record: pc is the       *)
(* position of its handleConnection goroutine ("accepted" while Accept has *)
(* returned it and no goroutine has been started for it yet), peer says    *)
(* whether the peer is still connected, drain, router and editor are the   *)
(* states of its handleGlobalRequests, handleChannel and handleShell       *)
(* goroutines ("none" | "running" | "returned"), and late says whether     *)
(* Accept returned it after Server.done was closed; rejected is the reason *)
(* given for the latest channel-open event that was rejected ("none" when  *)
(* none was); closed says whether handleConnection's deferred conn.Close() *)
(* has run.  A connection of this part carries at most one session         *)
(* channel; the requests of a channel are the subject of Spec.             *)
(***************************************************************************)
NewConn(isLate) ==
    [pc |-> "accepted", peer |-> TRUE, drain |-> "none", router |-> "none",
     editor |-> "none", late |-> isLate, rejected |-> "none",
     closed |-> FALSE]

\* The state after NewServer: nothing is started.
LifeIdle ==
    /\ listener = "nil"
    /\ done = FALSE
    /\ wg = 0
    /\ acceptPc = "none"
    /\ stopPc = "idle"
    /\ startResult = "none"
    /\ startCount = 0
    /\ acceptErrs = 0
    /\ conns = << >>

\* A started server at the handshake of its first connection, where the
\* authenticator is called.
LifeHandshake ==
    /\ listener = "open"
    /\ done = FALSE
    /\ wg = 2
    /\ acceptPc = "accept"
    /\ stopPc = "idle"
    /\ startResult = "ok"
    /\ startCount = 1
    /\ acceptErrs = 0
    /\ conns = <<[NewConn(FALSE) EXCEPT !.pc = "handshake"]>>

\* A started server serving the session channel of its first connection;
\* ed is the state of the channel's handleShell goroutine.
LifeServing(ed) ==
    /\ listener = "open"
    /\ done = FALSE
    /\ wg = 2
    /\ acceptPc = "accept"
    /\ stopPc = "idle"
    /\ startResult = "ok"
    /\ startCount = 1
    /\ acceptErrs = 0
    /\ conns = <<[NewConn(FALSE) EXCEPT !.pc = "serving", !.drain = "running",
                                        !.router = "running", !.editor = ed]>>

StartEager ==
    /\ server = "built"
    /\ startCount < MaxStarts
    /\ startResult # "ok"
    /\ startCount' = startCount + 1
    /\ wg' = wg + 1
    /\ acceptPc' = "select"
    /\ \E bound \in BOOLEAN :
         IF bound
         THEN /\ listener' = "open"
              /\ startResult' = "ok"
         ELSE /\ startResult' = "error"
              /\ UNCHANGED listener
    /\ UNCHANGED <<done, stopPc, acceptErrs, conns>>
    /\ UNCHANGED <<chanVars, authVars, appVars>>

\* Start, a method of the Server that NewServer returned, called by the
\* program until it has succeeded once.  net.Listen binds the address or fails.
Start ==
    /\ server = "built"
    /\ startCount < MaxStarts
    /\ startResult # "ok"
    /\ startCount' = startCount + 1
    /\ \E bound \in BOOLEAN :
         IF bound
         THEN /\ listener' = "open"
              /\ wg' = wg + 1
              /\ acceptPc' = "select"
              /\ startResult' = "ok"
         ELSE /\ startResult' = "error"
              /\ UNCHANGED <<listener, wg, acceptPc>>
    /\ UNCHANGED <<done, stopPc, acceptErrs, conns>>
    /\ UNCHANGED <<chanVars, authVars, appVars>>

\* Stop: close(s.done).
StopCloseDone ==
    /\ stopPc = "idle"
    /\ done' = TRUE
    /\ stopPc' = "closing"
    /\ UNCHANGED <<listener, wg, acceptPc, startResult, startCount, acceptErrs,
                   conns>>
    /\ UNCHANGED <<chanVars, authVars, appVars>>

\* Stop: `if s.listener != nil { if err := s.listener.Close(); err != nil
\* { return ... } }`.  When Close reports an error Stop returns it at once;
\* whether the socket was released by the failed Close is not known.
StopCloseListener ==
    /\ stopPc = "closing"
    /\ IF listener = "nil"
       THEN /\ stopPc' = "waiting"
            /\ UNCHANGED listener
       ELSE \E err \in BOOLEAN :
              IF err
              THEN /\ stopPc' = "failed"
                   /\ listener' \in {"open", "closed"}
              ELSE /\ stopPc' = "waiting"
                   /\ listener' = "closed"
    /\ UNCHANGED <<done, wg, acceptPc, startResult, startCount, acceptErrs,
                   conns>>
    /\ UNCHANGED <<chanVars, authVars, appVars>>

StopNoWait ==
    /\ stopPc = "waiting"
    /\ stopPc' = "returned"
    /\ UNCHANGED <<listener, done, wg, acceptPc, startResult, startCount,
                   acceptErrs, conns>>
    /\ UNCHANGED <<chanVars, authVars, appVars>>

\* Stop: s.wg.Wait() returns when the counter is zero; Stop returns nil.
StopWait ==
    /\ stopPc = "waiting"
    /\ wg = 0
    /\ stopPc' = "returned"
    /\ UNCHANGED <<listener, done, wg, acceptPc, startResult, startCount,
                   acceptErrs, conns>>
    /\ UNCHANGED <<chanVars, authVars, appVars>>

\* A call of Stop made after an earlier call has returned: it begins with
\* close(s.done) like the first one, and closing a channel that is already
\* closed panics.  Nothing reopens s.done.
StopAgain ==
    /\ stopPc \in {"returned", "failed"}
    /\ IF done
       THEN stopPc' = "panicked"
       ELSE stopPc' = "closing"
    /\ done' = TRUE
    /\ UNCHANGED <<listener, wg, acceptPc, startResult, startCount, acceptErrs,
                   conns>>
    /\ UNCHANGED <<chanVars, authVars, appVars>>

\* acceptConnections: the outer select.  With s.done closed the goroutine
\* returns and its deferred s.wg.Done() runs; otherwise it calls Accept.
AcceptSelect ==
    /\ acceptPc = "select"
    /\ IF done
       THEN /\ acceptPc' = "returned"
            /\ wg' = wg - 1
       ELSE /\ acceptPc' = "accept"
            /\ UNCHANGED wg
    /\ UNCHANGED <<listener, done, stopPc, startResult, startCount, acceptErrs,
                   conns>>
    /\ UNCHANGED <<chanVars, authVars, appVars>>

\* s.listener.Accept() returns a connection: a peer has connected to the
\* open listener.  At most `most` connections are followed.
AcceptUpTo(most) ==
    /\ acceptPc = "accept"
    /\ listener = "open"
    /\ Len(conns) < most
    /\ conns' = Append(conns, NewConn(done))
    /\ acceptPc' = "got"
    /\ UNCHANGED <<listener, done, wg, stopPc, startResult, startCount,
                   acceptErrs>>
    /\ UNCHANGED <<chanVars, authVars, appVars>>

AcceptOk == AcceptUpTo(MaxConns)

AcceptServed == AcceptUpTo(MaxServed)

\* s.listener.Accept() returns an error: the listener has been closed, or
\* the accept failed for a passing reason.
AcceptFail ==
    /\ acceptPc = "accept"
    /\ \/ /\ listener = "closed"
          /\ UNCHANGED acceptErrs
       \/ /\ listener = "open"
          /\ acceptErrs < MaxAcceptErrs
          /\ acceptErrs' = acceptErrs + 1
    /\ acceptPc' = "err"
    /\ UNCHANGED <<listener, done, wg, stopPc, startResult, startCount, conns>>
    /\ UNCHANGED <<chanVars, authVars, appVars>>

AcceptErrExit ==
    /\ acceptPc = "err"
    /\ acceptPc' = "returned"
    /\ wg' = wg - 1
    /\ UNCHANGED <<listener, done, stopPc, startResult, startCount, acceptErrs,
                   conns>>
    /\ UNCHANGED <<chanVars, authVars, appVars>>

\* acceptConnections: the inner select after an accept error.  With s.done
\* closed the goroutine returns; otherwise the error is logged and the loop
\* continues.
AcceptErrCheck ==
    /\ acceptPc = "err"
    /\ IF done
       THEN /\ acceptPc' = "returned"
            /\ wg' = wg - 1
       ELSE /\ acceptPc' = "select"
            /\ UNCHANGED wg
    /\ UNCHANGED <<listener, done, stopPc, startResult, startCount, acceptErrs,
                   conns>>
    /\ UNCHANGED <<chanVars, authVars, appVars>>

AcceptSpawnUntracked ==
    /\ acceptPc = "got"
    /\ conns' = [conns EXCEPT ![Len(conns)].pc = "handshake"]
    /\ acceptPc' = "select"
    /\ UNCHANGED <<listener, done, wg, stopPc, startResult, startCount,
                   acceptErrs>>
    /\ UNCHANGED <<chanVars, authVars, appVars>>

\* acceptConnections: s.wg.Add(1) and `go func() { defer s.wg.Done();
\* s.handleConnection(conn) }()` for the connection Accept returned.
AcceptSpawn ==
    /\ acceptPc = "got"
    /\ wg' = wg + 1
    /\ conns' = [conns EXCEPT ![Len(conns)].pc = "handshake"]
    /\ acceptPc' = "select"
    /\ UNCHANGED <<listener, done, stopPc, startResult, startCount, acceptErrs>>
    /\ UNCHANGED <<chanVars, authVars, appVars>>

\* handleConnection: ssh.NewServerConn succeeds and the goroutine starts
\* `go s.handleGlobalRequests(reqs)` and ranges over the channel-open events.
HandshakeOk(c) ==
    /\ conns[c].pc = "handshake"
    /\ conns[c].peer
    /\ conns' = [conns EXCEPT ![c].pc = "serving", ![c].drain = "running"]
    /\ UNCHANGED <<listener, done, wg, acceptPc, stopPc, startResult,
                   startCount, acceptErrs>>
    /\ UNCHANGED <<chanVars, authVars, appVars>>

HandshakeFailFatal(c) ==
    /\ conns[c].pc = "handshake"
    /\ conns' = [conns EXCEPT ![c].pc = "returned", ![c].peer = FALSE,
                              ![c].closed = TRUE]
    /\ wg' = wg - 2
    /\ acceptPc' = "returned"
    /\ UNCHANGED <<listener, done, stopPc, startResult, startCount, acceptErrs>>
    /\ UNCHANGED <<chanVars, authVars, appVars>>

HandshakeFailLeaks(c) ==
    /\ conns[c].pc = "handshake"
    /\ conns' = [conns EXCEPT ![c].pc = "returned", ![c].peer = FALSE]
    /\ wg' = wg - 1
    /\ UNCHANGED <<listener, done, acceptPc, stopPc, startResult, startCount,
                   acceptErrs>>
    /\ UNCHANGED <<chanVars, authVars, appVars>>

\* handleConnection: ssh.NewServerConn fails (the peer is gone, or the
\* negotiation or the authentication failed); the goroutine returns, its
\* deferred conn.Close() runs, then the deferred s.wg.Done().
HandshakeFail(c) ==
    /\ conns[c].pc = "handshake"
    /\ conns' = [conns EXCEPT ![c].pc = "returned", ![c].peer = FALSE,
                              ![c].closed = TRUE]
    /\ wg' = wg - 1
    /\ UNCHANGED <<listener, done, acceptPc, stopPc, startResult, startCount,
                   acceptErrs>>
    /\ UNCHANGED <<chanVars, authVars, appVars>>

\* handleConnection: the peer opens a session channel; it is accepted and
\* `go s.handleChannel(channel, requests)` starts its router.
OpenChannel(c) ==
    /\ conns[c].pc = "serving"
    /\ conns[c].peer
    /\ conns[c].router = "none"
    /\ conns' = [conns EXCEPT ![c].router = "running"]
    /\ UNCHANGED <<listener, done, wg, acceptPc, stopPc, startResult,
                   startCount, acceptErrs>>
    /\ UNCHANGED <<chanVars, authVars, appVars>>

RejectChannelReturns(c) ==
    /\ conns[c].pc = "serving"
    /\ conns[c].peer
    /\ conns' = [conns EXCEPT ![c].rejected = "UnknownChannelType",
                              ![c].pc = "returned", ![c].closed = TRUE]
    /\ wg' = wg - 1
    /\ UNCHANGED <<listener, done, acceptPc, stopPc, startResult, startCount,
                   acceptErrs>>
    /\ UNCHANGED <<chanVars, authVars, appVars>>

\* handleConnection: the peer opens a channel whose type is not "session";
\* newChannel.Reject(ssh.UnknownChannelType, ...) and the loop continues.
RejectChannel(c) ==
    /\ conns[c].pc = "serving"
    /\ conns[c].peer
    /\ conns' = [conns EXCEPT ![c].rejected = "UnknownChannelType"]
    /\ UNCHANGED <<listener, done, wg, acceptPc, stopPc, startResult,
                   startCount, acceptErrs>>
    /\ UNCHANGED <<chanVars, authVars, appVars>>

\* handleChannel, case "shell": `go s.handleShell(channel)`.
ShellRequest(c) ==
    /\ conns[c].router = "running"
    /\ conns[c].peer
    /\ conns[c].editor = "none"
    /\ cmdHandler
    /\ conns' = [conns EXCEPT ![c].editor = "running"]
    /\ UNCHANGED <<listener, done, wg, acceptPc, stopPc, startResult,
                   startCount, acceptErrs>>
    /\ UNCHANGED <<chanVars, authVars, appVars>>

\* The peer disconnects (or the connection is lost).
PeerDisconnect(c) ==
    /\ conns[c].peer
    /\ conns' = [conns EXCEPT ![c].peer = FALSE]
    /\ UNCHANGED <<listener, done, wg, acceptPc, stopPc, startResult,
                   startCount, acceptErrs>>
    /\ UNCHANGED <<chanVars, authVars, appVars>>

ConnEndOnDone(c) ==
    /\ conns[c].pc = "serving"
    /\ ~conns[c].peer \/ done
    /\ conns' = [conns EXCEPT ![c].pc = "returned", ![c].closed = TRUE]
    /\ wg' = wg - 1
    /\ UNCHANGED <<listener, done, acceptPc, stopPc, startResult, startCount,
                   acceptErrs>>
    /\ UNCHANGED <<chanVars, authVars, appVars>>

\* handleConnection: the stream of channel-open events ends because the
\* connection has ended; the range loop ends, the goroutine returns, the
\* deferred sshConn.Close() and conn.Close() run, then s.wg.Done().
ConnEnd(c) ==
    /\ conns[c].pc = "serving"
    /\ ~conns[c].peer
    /\ conns' = [conns EXCEPT ![c].pc = "returned", ![c].closed = TRUE]
    /\ wg' = wg - 1
    /\ UNCHANGED <<listener, done, acceptPc, stopPc, startResult, startCount,
                   acceptErrs>>
    /\ UNCHANGED <<chanVars, authVars, appVars>>

\* handleChannel: the request stream is closed with the connection; the
\* range loop ends and the goroutine returns.
RouterReturn(c) ==
    /\ conns[c].router = "running"
    /\ ~conns[c].peer
    /\ conns' = [conns EXCEPT ![c].router = "returned"]
    /\ UNCHANGED <<listener, done, wg, acceptPc, stopPc, startResult,
                   startCount, acceptErrs>>
    /\ UNCHANGED <<chanVars, authVars, appVars>>

\* handleShell: channel.Read returns an error once the connection has
\* ended; the goroutine returns.
EditorReturn(c) ==
    /\ conns[c].editor = "running"
    /\ ~conns[c].peer
    /\ conns' = [conns EXCEPT ![c].editor = "returned"]
    /\ UNCHANGED <<listener, done, wg, acceptPc, stopPc, startResult,
                   startCount, acceptErrs>>
    /\ UNCHANGED <<chanVars, authVars, appVars>>

\* A global request: its type, whether the peer asks for a reply, and its
\* rank among the global requests the peer sent.
GlobalKinds ==
    { [type |-> "keepalive@openssh.com", wantReply |-> TRUE],
      [type |-> "no-more-sessions@openssh.com", wantReply |-> FALSE] }

GlobalSent ==
    Len(globalReqs)
        + Cardinality({ i \in DOMAIN globalLog : globalLog[i].op = "recv" })

\* The peer of connection c sends a global request.
PeerGlobalRequest(c) ==
    /\ conns[c].drain = "running"
    /\ conns[c].peer
    /\ GlobalSent < MaxGlobal
    /\ \E k \in GlobalKinds :
         globalReqs' = Append(globalReqs,
                              [type |-> k.type, wantReply |-> k.wantReply,
                               rank |-> GlobalSent + 1])
    /\ UNCHANGED globalLog
    /\ UNCHANGED <<chanVars, authVars, lifeVars>>
    /\ UNCHANGED <<cfgVars, defVars, fsVars, gameVars, chatVars, execVars,
                   raceVars>>

GlobalRecv(req) == [op |-> "recv", rank |-> req.rank, ok |-> FALSE]
GlobalReply(req, ok) == [op |-> "reply", rank |-> req.rank, ok |-> ok]

DrainReplyAcks(req) ==
    IF req.wantReply THEN <<GlobalReply(req, TRUE)>> ELSE << >>

\* `if req.WantReply { req.Reply(false, nil) }`.
DrainReply(req) ==
    IF req.wantReply THEN <<GlobalReply(req, FALSE)>> ELSE << >>

\* handleGlobalRequests: one iteration of `for req := range reqs`: the
\* request is logged and, if it asks for a reply, refused.
DrainStep(c) ==
    /\ conns[c].drain = "running"
    /\ globalReqs # << >>
    /\ globalLog' = globalLog \o <<GlobalRecv(Head(globalReqs))>>
                              \o DrainReply(Head(globalReqs))
    /\ globalReqs' = Tail(globalReqs)
    /\ UNCHANGED <<chanVars, authVars, lifeVars>>
    /\ UNCHANGED <<cfgVars, defVars, fsVars, gameVars, chatVars, execVars,
                   raceVars>>

\* No global request was sent.
GlobalIdle ==
    /\ globalReqs = << >>
    /\ globalLog = << >>

\* handleGlobalRequests: the stream of global requests is closed with the
\* connection; once the requests it still holds are served the range loop
\* ends and the goroutine returns.
DrainReturn(c) ==
    /\ conns[c].drain = "running"
    /\ ~conns[c].peer
    /\ globalReqs = << >>
    /\ conns' = [conns EXCEPT ![c].drain = "returned"]
    /\ UNCHANGED <<listener, done, wg, acceptPc, stopPc, startResult,
                   startCount, acceptErrs>>
    /\ UNCHANGED <<chanVars, authVars, appVars>>

(***************************************************************************)
(* Configuration and construction.  A file named by the Config is modelled *)
(* by what the file system holds under that name: HostKeyFile is "" (no    *)
(* path), "absent", "garbage" (a file that is no private key) or "key";    *)
(* AuthorizedKeysFile is "", "absent" or "present"; LogWriter.FilePath is  *)
(* "", "unwritable" or "log".                                              *)
(***************************************************************************)
NilLog == [isNil |-> TRUE, Enabled |-> FALSE, FilePath |-> "", LogToStdout |-> FALSE]

LogConfigs ==
    {NilLog} \cup [isNil : {FALSE}, Enabled : BOOLEAN,
                   FilePath : {"", "unwritable", "log"}, LogToStdout : BOOLEAN]

Configs ==
    [ListenAddress : {"", ":2222"},
     HostKeyFile : {"", "absent", "garbage", "key"},
     AuthorizedKeysFile : {"", "absent", "present"},
     NoClientAuth : BOOLEAN,
     LogWriter : LogConfigs]

\* DefaultConfig, in a directory that holds the two files it names.
DefaultConfig ==
    [ListenAddress |-> ":2222", HostKeyFile |-> "key",
     AuthorizedKeysFile |-> "present", NoClientAuth |-> FALSE,
     LogWriter |-> [isNil |-> FALSE, Enabled |-> TRUE, FilePath |-> "log",
                    LogToStdout |-> TRUE]]

\* os.Stat fails on a name the file system does not hold.
StatFails(file) == file \in {"", "absent"}

ValidateNoKeysCheck(c) ==
    IF c.ListenAddress = "" THEN "listen address cannot be empty"
    ELSE IF c.NoClientAuth THEN "nil"
    ELSE IF c.HostKeyFile = "" THEN "host key file path cannot be empty"
    ELSE IF StatFails(c.HostKeyFile) THEN "host key file not found"
    ELSE "nil"

ValidateFilesAlways(c) ==
    IF c.ListenAddress = "" THEN "listen address cannot be empty"
    ELSE IF c.HostKeyFile = "" THEN "host key file path cannot be empty"
    ELSE IF c.AuthorizedKeysFile = ""
         THEN "authorized keys file path cannot be empty"
    ELSE IF StatFails(c.HostKeyFile) THEN "host key file not found"
    ELSE IF StatFails(c.AuthorizedKeysFile)
         THEN "authorized keys file not found"
    ELSE "nil"

\* Config.Validate: the error it returns, "nil" for none.
Validate(c) ==
    IF c.ListenAddress = "" THEN "listen address cannot be empty"
    ELSE IF c.NoClientAuth THEN "nil"
    ELSE IF c.HostKeyFile = "" THEN "host key file path cannot be empty"
    ELSE IF c.AuthorizedKeysFile = ""
         THEN "authorized keys file path cannot be empty"
    ELSE IF StatFails(c.HostKeyFile) THEN "host key file not found"
    ELSE IF StatFails(c.AuthorizedKeysFile)
         THEN "authorized keys file not found"
    ELSE "nil"

\* loadHostKey: os.ReadFile, then ssh.ParsePrivateKey.
loadHostKey(keyFile) ==
    IF StatFails(keyFile) THEN "failed to load private key"
    ELSE IF keyFile = "garbage" THEN "failed to parse private key"
    ELSE "nil"

\* NewServer: "built" when it returns a Server, "failed" when it returns
\* (nil, err), "panicked" when it reads through a nil LogWriter.
NewServer(c) ==
    IF Validate(c) # "nil" THEN "failed"
    ELSE IF c.LogWriter.isNil THEN "panicked"
    ELSE IF /\ c.LogWriter.Enabled
            /\ c.LogWriter.FilePath = "unwritable" THEN "failed"
    ELSE IF ~c.NoClientAuth /\ loadHostKey(c.HostKeyFile) # "nil" THEN "failed"
    ELSE "built"

\* The program calls NewServer with its Config.
NewServerCall ==
    /\ server = "none"
    /\ server' = NewServer(config)
    /\ UNCHANGED config
    /\ UNCHANGED <<defVars, fsVars, gameVars, chatVars, execVars>>
    /\ UNCHANGED <<chanVars, authVars, lifeVars, globVars, raceVars>>

\* A Server built from the default configuration.
ConfigBuilt ==
    /\ config = DefaultConfig
    /\ server = "built"

(***************************************************************************)
(* DefaultCommandHandler.  A command is a sequence of bytes; a registered   *)
(* function is named by an identifier: the four functions NewDefaultHandler *)
(* registers, and the program's own "A" (returns an output) and "E"         *)
(* (returns an error).                                                      *)
(***************************************************************************)
Hello == <<104, 101, 108, 108, 111>>
GetDate == <<103, 101, 116, 68, 97, 116, 101>>
Uptime == <<117, 112, 116, 105, 109, 101>>
Help == <<104, 101, 108, 112>>

\* The white space strings.TrimSpace removes, as far as the inputs hold it.
IsSpace(b) == b \in {SP, TAB, LF, CR}

RECURSIVE TrimLeft(_)
TrimLeft(s) ==
    IF s # << >> /\ IsSpace(Head(s)) THEN TrimLeft(Tail(s)) ELSE s

RECURSIVE TrimRight(_)
TrimRight(s) ==
    IF s # << >> /\ IsSpace(s[Len(s)])
    THEN TrimRight(SubSeq(s, 1, Len(s) - 1))
    ELSE s

TrimSpace(s) == TrimRight(TrimLeft(s))

\* What a registered function can return: an output (err = nil) or an error.
\* Sysinfo, which uptime calls, succeeds or fails.
HandlerReturns(f) ==
    IF f = "E" THEN {"error"}
    ELSE IF f = "uptime" THEN {"output", "error"}
    ELSE {"output"}

NoCommand == << >>
NoFunction == "none"

DefaultResult(kind, cmd, f, status) ==
    [kind |-> kind, cmd |-> cmd, fn |-> f, status |-> status]

DefaultExecuteRaw(cmds, cmd) ==
    IF cmd = << >>
    THEN {DefaultResult("empty", NoCommand, NoFunction, 0)}
    ELSE IF cmd \in DOMAIN cmds
    THEN { IF ret = "error"
           THEN DefaultResult("error", NoCommand, cmds[cmd], 1)
           ELSE DefaultResult("output", NoCommand, cmds[cmd], 0)
           : ret \in HandlerReturns(cmds[cmd]) }
    ELSE {DefaultResult("unknown", cmd, NoFunction, 1)}

\* DefaultCommandHandler.Execute: the results it can return for cmd when the
\* map is cmds.  "empty" is ("", 0); "output" is the function's output with
\* status 0; "error" is "Error: ..." with status 1; "unknown" is "Unknown
\* command: <cmd>..." with status 1.
DefaultExecute(cmds, cmd) ==
    LET trimmed == TrimSpace(cmd) IN
    IF trimmed = << >>
    THEN {DefaultResult("empty", NoCommand, NoFunction, 0)}
    ELSE IF trimmed \in DOMAIN cmds
    THEN { IF ret = "error"
           THEN DefaultResult("error", NoCommand, cmds[trimmed], 1)
           ELSE DefaultResult("output", NoCommand, cmds[trimmed], 0)
           : ret \in HandlerReturns(cmds[trimmed]) }
    ELSE {DefaultResult("unknown", trimmed, NoFunction, 1)}

\* The map NewDefaultHandler leaves.
DefaultCommands ==
    [n \in {Hello, GetDate, Uptime, Help} |->
        IF n = Hello THEN "hello"
        ELSE IF n = GetDate THEN "getDate"
        ELSE IF n = Uptime THEN "uptime"
        ELSE "help"]

\* The names the program registers: the empty name, "h", and names with
\* white space before or after.
Names == {<< >>, <<104>>, <<SP, 104>>, <<104, SP>>, <<104, 104>>}
RegisterNames == Names \cup {Hello}
Functions == {"A", "E"}
Tabbed == <<TAB, 104, LF>>
DefaultInputs == Names \cup {Hello, Uptime, Tabbed, Hello \o <<CR, LF>>}

NoCall == [cmd |-> << >>, result |-> DefaultResult("none", NoCommand, NoFunction, 0)]

RegisterKeep(name, f) ==
    /\ defCount < MaxRegistrations
    /\ defCount' = defCount + 1
    /\ commands' = [n \in DOMAIN commands \cup {name} |->
                        IF n \in DOMAIN commands THEN commands[n] ELSE f]
    /\ defLast' = [cmd |-> name,
                   result |-> DefaultResult("registered", NoCommand, f, 0)]
    /\ UNCHANGED <<cfgVars, fsVars, gameVars, chatVars, execVars>>
    /\ UNCHANGED <<chanVars, authVars, lifeVars, globVars, raceVars>>

\* RegisterCommand(name, f): h.commands[name] = f.  defLast keeps the call.
RegisterCommand(name, f) ==
    /\ defCount < MaxRegistrations
    /\ defCount' = defCount + 1
    /\ commands' = [n \in DOMAIN commands \cup {name} |->
                        IF n = name THEN f ELSE commands[n]]
    /\ defLast' = [cmd |-> name,
                   result |-> DefaultResult("registered", NoCommand, f, 0)]
    /\ UNCHANGED <<cfgVars, fsVars, gameVars, chatVars, execVars>>
    /\ UNCHANGED <<chanVars, authVars, lifeVars, globVars, raceVars>>

\* A call of Execute(cmd); defLast keeps the call and what it returned.
DefaultExecuteCall ==
    /\ \E cmd \in DefaultInputs : \E r \in DefaultExecute(commands, cmd) :
          defLast' = [cmd |-> cmd, result |-> r]
    /\ UNCHANGED <<commands, defCount>>
    /\ UNCHANGED <<cfgVars, fsVars, gameVars, chatVars, execVars>>
    /\ UNCHANGED <<chanVars, authVars, lifeVars, globVars, raceVars>>

DefaultIdle ==
    /\ commands = DefaultCommands
    /\ defLast = NoCall
    /\ defCount = 0

(***************************************************************************)
(* The same handler shared by the program's goroutine, which calls          *)
(* RegisterCommand, and the goroutines of the channels, which call Execute. *)
(* h.commands is a Go map and neither method holds a lock: the assignment   *)
(* of RegisterCommand and the read of Execute each take the time between    *)
(* their begin and their end, and the two can overlap.  An overlapping read *)
(* finds the map as it was or as the assignment leaves it, or the runtime   *)
(* detects the overlap and ends the process.                                *)
(***************************************************************************)
NoWrite == [busy |-> FALSE, name |-> << >>, f |-> ""]
NoLookup == [busy |-> FALSE, cmd |-> << >>]

\* The names registered and looked up concurrently: a name NewDefaultHandler
\* registered, and a new one.
LookupInputs == {Hello, <<104>>}

\* The table once the assignment h.commands[name] = f is done.
Assigned(cmds, name, f) ==
    [n \in DOMAIN cmds \cup {name} |-> IF n = name THEN f ELSE cmds[n]]

\* RegisterCommand: the assignment h.commands[name] = f begins.
RegisterBegin(name, f) ==
    /\ ~mapFault
    /\ ~writing.busy
    /\ defCount < MaxRegistrations
    /\ defCount' = defCount + 1
    /\ writing' = [busy |-> TRUE, name |-> name, f |-> f]
    /\ UNCHANGED <<commands, defLast, lookups, mapFault>>
    /\ UNCHANGED <<cfgVars, fsVars, gameVars, chatVars, execVars, globVars>>
    /\ UNCHANGED <<chanVars, authVars, lifeVars>>

\* RegisterCommand: the assignment is done and the method returns.
RegisterEnd ==
    /\ ~mapFault
    /\ writing.busy
    /\ commands' = Assigned(commands, writing.name, writing.f)
    /\ defLast' = [cmd |-> writing.name,
                   result |-> DefaultResult("registered", NoCommand,
                                            writing.f, 0)]
    /\ writing' = NoWrite
    /\ UNCHANGED <<defCount, lookups, mapFault>>
    /\ UNCHANGED <<cfgVars, fsVars, gameVars, chatVars, execVars, globVars>>
    /\ UNCHANGED <<chanVars, authVars, lifeVars>>

\* Execute on channel i: `handler, ok := h.commands[cmd]` begins.
LookupBegin(i, cmd) ==
    /\ ~mapFault
    /\ ~lookups[i].busy
    /\ lookups' = [lookups EXCEPT ![i] = [busy |-> TRUE, cmd |-> cmd]]
    /\ UNCHANGED <<commands, defLast, defCount, writing, mapFault>>
    /\ UNCHANGED <<cfgVars, fsVars, gameVars, chatVars, execVars, globVars>>
    /\ UNCHANGED <<chanVars, authVars, lifeVars>>

\* Execute on channel i: the read is done and the call returns what the
\* table read gives; a read that overlaps an assignment finds either table.
LookupEnd(i) ==
    /\ ~mapFault
    /\ lookups[i].busy
    /\ \E tbl \in IF writing.busy
                   THEN {commands, Assigned(commands, writing.name, writing.f)}
                   ELSE {commands} :
         \E r \in DefaultExecute(tbl, lookups[i].cmd) :
            defLast' = [cmd |-> lookups[i].cmd, result |-> r]
    /\ lookups' = [lookups EXCEPT ![i] = NoLookup]
    /\ UNCHANGED <<commands, defCount, writing, mapFault>>
    /\ UNCHANGED <<cfgVars, fsVars, gameVars, chatVars, execVars, globVars>>
    /\ UNCHANGED <<chanVars, authVars, lifeVars>>

\* The runtime detects a map read concurrent with a map write and throws
\* "fatal error: concurrent map read and map write": the process ends.
MapFault ==
    /\ ~mapFault
    /\ writing.busy
    /\ \E i \in DOMAIN lookups : lookups[i].busy
    /\ mapFault' = TRUE
    /\ UNCHANGED <<commands, defLast, defCount, writing, lookups>>
    /\ UNCHANGED <<cfgVars, fsVars, gameVars, chatVars, execVars, globVars>>
    /\ UNCHANGED <<chanVars, authVars, lifeVars>>

\* No call is in progress on the handler.
RaceIdle ==
    /\ writing = NoWrite
    /\ lookups = [i \in 1..MaxChannels |-> NoLookup]
    /\ mapFault = FALSE

(***************************************************************************)
(* The chat room of examples/chat-server.  A message of the history is     *)
(* named by its rank: the n-th message recorded in the room is n.  Every    *)
(* operation below runs with cr.mutex held, from its Lock to its return.    *)
(***************************************************************************)
Usernames == {"ann", "bob"}

addMessageKeepOldest(history, msg) ==
    LET appended == Append(history, msg) IN
    IF Len(appended) > maxMsgs
    THEN SubSeq(appended, 1, maxMsgs)
    ELSE appended

\* addMessage: append, then keep only the last maxMsgs messages.
addMessage(history, msg) ==
    LET appended == Append(history, msg) IN
    IF Len(appended) > maxMsgs
    THEN SubSeq(appended, Len(appended) - maxMsgs + 1, Len(appended))
    ELSE appended

\* AddUser: the user enters the map and a join message is recorded.
AddUser(u) ==
    /\ recorded < MaxRecorded
    /\ users' = users \cup {u}
    /\ recorded' = recorded + 1
    /\ messages' = addMessage(messages, recorded + 1)
    /\ UNCHANGED <<cfgVars, defVars, fsVars, gameVars, execVars>>
    /\ UNCHANGED <<chanVars, authVars, lifeVars, globVars, raceVars>>

\* RemoveUser: for a user of the map, the user leaves it and a leave message
\* is recorded; for any other name nothing happens.
RemoveUser(u) ==
    /\ recorded < MaxRecorded
    /\ u \in users
    /\ users' = users \ {u}
    /\ recorded' = recorded + 1
    /\ messages' = addMessage(messages, recorded + 1)
    /\ UNCHANGED <<cfgVars, defVars, fsVars, gameVars, execVars>>
    /\ UNCHANGED <<chanVars, authVars, lifeVars, globVars, raceVars>>

\* BroadcastMessage: the message is recorded, then offered to every user.
BroadcastMessage ==
    /\ recorded < MaxRecorded
    /\ recorded' = recorded + 1
    /\ messages' = addMessage(messages, recorded + 1)
    /\ UNCHANGED users
    /\ UNCHANGED <<cfgVars, defVars, fsVars, gameVars, execVars>>
    /\ UNCHANGED <<chanVars, authVars, lifeVars, globVars, raceVars>>

\* NewChatRoom.
ChatIdle ==
    /\ users = {}
    /\ messages = << >>
    /\ recorded = 0

(***************************************************************************)
(* The number guessing game of examples/game-server.  A command is given   *)
(* by its first field: a word, or a decimal numeral given by its value.     *)
(* The other games of the menu are not modelled.                            *)
(***************************************************************************)
Word(w) == [isNum |-> FALSE, word |-> w, num |-> 0]
Numeral(n) == [isNum |-> TRUE, word |-> "", num |-> n]

\* rand.Intn(100) + 1 draws the number from 1..100; these are the draws
\* the model follows.
Numbers == {1, 50}
Guesses == {0, 1, 50, 101}
GameCommands ==
    {Word(w) : w \in {"", "menu", "score", "guess", "hint", "surrender", "xyz"}}
        \cup {Numeral(n) : n \in Guesses}

GameResult(g, out, points, status) ==
    [game |-> g, out |-> out, points |-> points, status |-> status]

\* showMainMenu: back to the menu, with the game's data cleared.
showMainMenu(g) ==
    [g EXCEPT !.CurrentGame = "menu", !.number = 0, !.attempts = 0]

\* startGuessGame: a fresh number, no attempts used.
startGuessGame(g) ==
    { [g EXCEPT !.CurrentGame = "guess", !.number = n, !.attempts = 0]
      : n \in Numbers }

\* processGuess: the attempt is counted, then the guess is compared.  Neither
\* a win nor "Game Over" leaves the game.
processGuess(g, guess) ==
    LET attempts == g.attempts + 1
        points == (maxAttempts - attempts + 1) * 10
        counted == [g EXCEPT !.attempts = attempts]
    IN  IF guess = g.number
        THEN GameResult([counted EXCEPT !.score = g.score + points,
                                        !.gamesWon = g.gamesWon + 1],
                        "won", points, 0)
        ELSE IF attempts >= maxAttempts
        THEN GameResult(counted, "over", 0, 0)
        ELSE IF guess < g.number
        THEN GameResult(counted, "low", 0, 0)
        ELSE GameResult(counted, "high", 0, 0)

\* handleGuessCommand.
handleGuessCommand(g, cmd) ==
    IF ~cmd.isNum /\ cmd.word = "hint" THEN GameResult(g, "hint", 0, 0)
    ELSE IF ~cmd.isNum /\ cmd.word = "surrender"
    THEN GameResult(g, "reveal", 0, 0)
    ELSE IF ~cmd.isNum THEN GameResult(g, "not a number", 0, 1)
    ELSE IF cmd.num < 1 \/ cmd.num > 100 THEN GameResult(g, "out of range", 0, 1)
    ELSE processGuess(g, cmd.num)

\* handleMenuCommand, for the guessing game.
handleMenuCommand(g, cmd) ==
    IF (~cmd.isNum /\ cmd.word = "guess") \/ (cmd.isNum /\ cmd.num = 1)
    THEN { GameResult(started, "start", 0, 0) : started \in startGuessGame(g) }
    ELSE {GameResult(g, "unknown game", 0, 1)}

\* GameHandler.Execute: the results it can return, each with the handler's
\* state after the call.
GameExecute(g, cmd) ==
    IF ~cmd.isNum /\ cmd.word = "" THEN {GameResult(g, "empty", 0, 0)}
    ELSE IF ~cmd.isNum /\ cmd.word = "menu"
    THEN {GameResult(showMainMenu(g), "menu", 0, 0)}
    ELSE IF ~cmd.isNum /\ cmd.word = "score" THEN {GameResult(g, "score", 0, 0)}
    ELSE IF g.CurrentGame = "menu" THEN handleMenuCommand(g, cmd)
    ELSE {handleGuessCommand(g, cmd)}

NoGameCall == [cmd |-> Word(""), out |-> "none", points |-> 0, status |-> 0]

\* A command sent to the handler; gameLast keeps the call and its result.
GameExecuteCall ==
    /\ gameCount < MaxCommands
    /\ gameCount' = gameCount + 1
    /\ \E cmd \in GameCommands : \E r \in GameExecute(game, cmd) :
          /\ game' = r.game
          /\ gameLast' = [cmd |-> cmd, out |-> r.out, points |-> r.points,
                          status |-> r.status]
    /\ UNCHANGED <<cfgVars, defVars, fsVars, chatVars, execVars>>
    /\ UNCHANGED <<chanVars, authVars, lifeVars, globVars, raceVars>>

\* NewGameHandler.
GameIdle ==
    /\ game = [CurrentGame |-> "menu", number |-> 0, attempts |-> 0,
               score |-> 0, gamesWon |-> 0]
    /\ gameLast = NoGameCall
    /\ gameCount = 0

(***************************************************************************)
(* Exec requests on several channels of a server whose handler is the      *)
(* CustomHandler of examples/custom-handler.  Each channel has its own      *)
(* handleChannel goroutine, which calls Execute; Execute begins with        *)
(* h.counter++ on the one handler, a load and a store with no lock held.    *)
(* execs[i] is channel i's request: its command, the position of the        *)
(* goroutine, the counter value it loaded, and what it wrote to channel i.  *)
(***************************************************************************)
CustomCommands == {"", "echo", "echo hi", "echo yo"}

\* CustomHandler.Execute after the increment, for the commands above.
CustomExecute(cmd) ==
    IF cmd = "" THEN [out |-> "", status |-> 0]
    ELSE IF cmd = "echo" THEN [out |-> "Usage: echo <message>", status |-> 1]
    ELSE IF cmd = "echo hi" THEN [out |-> "hi", status |-> 0]
    ELSE [out |-> "yo", status |-> 0]

NewExec(cmd) ==
    [cmd |-> cmd, pc |-> "pending", loaded |-> 0, out |-> "", status |-> 0]

\* handleChannel of channel i calls Execute: h.counter++ loads the counter.
ExecuteLoad(i) ==
    /\ execs[i].pc = "pending"
    /\ execs' = [execs EXCEPT ![i].pc = "loaded", ![i].loaded = counter]
    /\ UNCHANGED counter
    /\ UNCHANGED <<cfgVars, defVars, fsVars, gameVars, chatVars>>
    /\ UNCHANGED <<chanVars, authVars, lifeVars, globVars, raceVars>>

\* h.counter++ stores the value it loaded, plus one.
ExecuteStore(i) ==
    /\ execs[i].pc = "loaded"
    /\ counter' = execs[i].loaded + 1
    /\ execs' = [execs EXCEPT ![i].pc = "counted"]
    /\ UNCHANGED <<cfgVars, defVars, fsVars, gameVars, chatVars>>
    /\ UNCHANGED <<chanVars, authVars, lifeVars, globVars, raceVars>>

\* Execute returns; handleChannel writes the output to its channel and sends
\* the exit status.
ExecuteReply(i) ==
    /\ execs[i].pc = "counted"
    /\ execs' = [execs EXCEPT ![i].pc = "done",
                              ![i].out = CustomExecute(execs[i].cmd).out,
                              ![i].status = CustomExecute(execs[i].cmd).status]
    /\ UNCHANGED counter
    /\ UNCHANGED <<cfgVars, defVars, fsVars, gameVars, chatVars>>
    /\ UNCHANGED <<chanVars, authVars, lifeVars, globVars, raceVars>>

\* NewCustomHandler, and no exec request yet.
ExecIdle ==
    /\ counter = 0
    /\ execs = << >>

(***************************************************************************)
(* The file server of examples/file-server.  A cleaned absolute path is    *)
(* the sequence of its components, "/" being the empty sequence.  A path    *)
(* argument is absolute or relative and is a sequence of components, among  *)
(* them "." and "..".  No name of the model begins with a dot.              *)
(***************************************************************************)
rootDir == <<"srv">>

RECURSIVE CleanFrom(_, _)
CleanFrom(stack, rest) ==
    IF rest = << >> THEN stack
    ELSE IF Head(rest) = "." THEN CleanFrom(stack, Tail(rest))
    ELSE IF Head(rest) = ".."
    THEN CleanFrom(IF stack = << >> THEN stack
                   ELSE SubSeq(stack, 1, Len(stack) - 1), Tail(rest))
    ELSE CleanFrom(Append(stack, Head(rest)), Tail(rest))

\* filepath.Clean of a rooted path: "." dropped, ".." removes the component
\* before it, and ".." at the root is dropped.
Clean(parts) == CleanFrom(<< >>, parts)

\* resolvePath: Clean(path) for an absolute path, Clean(Join(currentDir,
\* path)) otherwise.
resolvePath(cur, arg) ==
    IF arg.abs THEN Clean(arg.parts) ELSE Clean(cur \o arg.parts)

RECURSIVE CommonLen(_, _)
CommonLen(p, q) ==
    IF p # << >> /\ q # << >> /\ Head(p) = Head(q)
    THEN 1 + CommonLen(Tail(p), Tail(q))
    ELSE 0

\* filepath.Rel(base, target) of two cleaned absolute paths: one ".." for
\* each component of base after the common prefix, then the rest of target.
Rel(base, target) ==
    LET k == CommonLen(base, target) IN
    [i \in 1..(Len(base) - k) |-> ".."] \o SubSeq(target, k + 1, Len(target))

\* strings.HasPrefix(rel, ".."): the relative path begins with two dots
\* when its first component does, and of the components only ".." does.
HasDotDotPrefix(rel) == rel # << >> /\ rel[1] = ".."

isPathAllowedByLength(path) == Len(path) >= Len(rootDir)

\* isPathAllowed.
isPathAllowed(path) == ~HasDotDotPrefix(Rel(rootDir, path))

Components == {"a", "srv", ".", ".."}
PathArgs ==
    [abs : BOOLEAN,
     parts : UNION { [1..n -> Components] : n \in 1..MaxPathLen }]
NoArg == [abs |-> FALSE, parts |-> << >>]

FsCall(cmd, hasArg, arg, count) ==
    [cmd |-> cmd, hasArg |-> hasArg, arg |-> arg, count |-> count]

\* The calls of Execute the model follows: count is the second argument of
\* head and tail ("none" when it is not given).
FsCalls ==
    {FsCall(cmd, FALSE, NoArg, "none")
        : cmd \in {"", "pwd", "cd", "ls", "tree", "cat", "stat", "download",
                    "head", "tail", "find"}}
    \cup {FsCall(cmd, TRUE, arg, "none")
        : cmd \in {"cd", "ls", "tree", "cat", "stat", "download", "head",
                    "tail", "find"}, arg \in PathArgs}
    \cup {FsCall(cmd, TRUE, arg, count)
        : cmd \in {"head", "tail"}, arg \in PathArgs,
          count \in {"number", "not a number"}}

FsResult(dir, out, status, touched) ==
    [dir |-> dir, out |-> out, status |-> status, touched |-> touched]

\* What the file system answers for a path: os.Stat, os.ReadDir, os.Open.
FsAnswers == {"dir", "file", "missing"}

\* changeDirectory.
changeDirectory(cur, call) ==
    IF ~call.hasArg THEN {FsResult(rootDir, "ok", 0, << >>)}
    ELSE LET targetDir == resolvePath(cur, call.arg) IN
         IF ~isPathAllowed(targetDir)
         THEN {FsResult(cur, "Error: Access denied", 1, << >>)}
         ELSE { IF answer = "missing"
                THEN FsResult(cur, "Error: stat", 1, <<targetDir>>)
                ELSE IF answer = "file"
                THEN FsResult(cur, "Error: Not a directory", 1, <<targetDir>>)
                ELSE FsResult(targetDir, "ok", 0, <<targetDir>>)
                : answer \in FsAnswers }

\* listDirectory and showTree: the target is the current directory unless
\* an argument names another.
listDirectory(cur, call) ==
    LET targetDir == IF call.hasArg THEN resolvePath(cur, call.arg) ELSE cur IN
    IF ~isPathAllowed(targetDir)
    THEN {FsResult(cur, "Error: Access denied", 1, << >>)}
    ELSE { IF answer = "dir"
           THEN FsResult(cur, "ok", 0, <<targetDir>>)
           ELSE IF call.cmd = "tree"
           THEN FsResult(cur, "ok", 0, <<targetDir>>)
           ELSE FsResult(cur, "Error reading directory", 1, <<targetDir>>)
           : answer \in FsAnswers }

\* displayFile, getFileInfo, downloadFile and displayFileLines: usage
\* without an argument, else resolve, check, then read.
readFile(cur, call) ==
    IF ~call.hasArg THEN {FsResult(cur, "Usage", 1, << >>)}
    ELSE LET filePath == resolvePath(cur, call.arg) IN
         IF ~isPathAllowed(filePath)
         THEN {FsResult(cur, "Error: Access denied", 1, << >>)}
         ELSE { IF answer = "missing"
                THEN FsResult(cur, "Error: stat", 1, <<filePath>>)
                ELSE IF answer = "dir" /\ call.cmd # "stat"
                THEN FsResult(cur, "Error: is a directory", 1, <<filePath>>)
                ELSE FsResult(cur, "ok", 0, <<filePath>>)
                : answer \in FsAnswers }

\* displayFileHead and displayFileTail: the line count is parsed before the
\* path is resolved.
displayFileHead(cur, call) ==
    IF ~call.hasArg THEN {FsResult(cur, "Usage", 1, << >>)}
    ELSE IF call.count = "not a number"
    THEN {FsResult(cur, "Error: Invalid line count", 1, << >>)}
    ELSE readFile(cur, call)

\* findFiles: the argument is a pattern for the names under the current
\* directory, which is walked.
findFiles(cur, call) ==
    IF ~call.hasArg THEN {FsResult(cur, "Usage", 1, << >>)}
    ELSE {FsResult(cur, "ok", 0, <<cur>>)}

\* FileServerHandler.Execute: the results it can return, each with the
\* current directory after the call and the paths it touched.
FsExecute(cur, call) ==
    IF call.cmd = "" THEN {FsResult(cur, "", 0, << >>)}
    ELSE IF call.cmd = "pwd" THEN {FsResult(cur, "ok", 0, << >>)}
    ELSE IF call.cmd = "cd" THEN changeDirectory(cur, call)
    ELSE IF call.cmd \in {"ls", "tree"} THEN listDirectory(cur, call)
    ELSE IF call.cmd \in {"head", "tail"} THEN displayFileHead(cur, call)
    ELSE IF call.cmd = "find" THEN findFiles(cur, call)
    ELSE readFile(cur, call)

NoFsCall == [cmd |-> "", hasArg |-> FALSE, out |-> "", status |-> 0]

\* A call of Execute; fsLast keeps the command and what it returned.
\* Directories deeper than MaxDepth below the root are not entered.
FsExecuteCall ==
    /\ \E call \in FsCalls : \E r \in FsExecute(currentDir, call) :
          /\ Len(r.dir) <= Len(rootDir) + MaxDepth
          /\ currentDir' = r.dir
          /\ fsLast' = [cmd |-> call.cmd, hasArg |-> call.hasArg,
                        out |-> r.out, status |-> r.status]
    /\ UNCHANGED <<cfgVars, defVars, gameVars, chatVars, execVars>>
    /\ UNCHANGED <<chanVars, authVars, lifeVars, globVars, raceVars>>

\* NewFileServerHandler(rootDir).
FsIdle ==
    /\ currentDir = rootDir
    /\ fsLast = NoFsCall

\* Every handler and room as its constructor leaves it.
AppIdle ==
    /\ ConfigBuilt
    /\ DefaultIdle
    /\ FsIdle
    /\ GameIdle
    /\ ChatIdle
    /\ ExecIdle
    /\ GlobalIdle
    /\ RaceIdle

(***************************************************************************)
(* Specifications.                                                         *)
(***************************************************************************)

AuthIdle ==
    /\ authFile = Readable(<< >>)
    /\ authResult = NoAttempt
    /\ authCount = 0

Init ==
    /\ cmdHandler \in BOOLEAN
    /\ requests = << >>
    /\ reqClosed = FALSE
    /\ reqSent = 0
    /\ routerPc = "awaiting"
    /\ shells = << >>
    /\ chanData = << >>
    /\ chanRead = "open"
    /\ dataSent = 0
    /\ typed = << >>
    /\ events = << >>
    /\ AuthIdle
    /\ LifeServing("none")
    /\ AppIdle

\* Spec: the routing of the channel's requests, with the line editors it
\* starts; the peer types nothing (SpecShell is the session with input).
Next ==
    \/ PeerRequest
    \/ PeerEOF
    \/ PeerClose
    \/ TransportFail
    \/ RouterStep
    \/ RouterEnd
    \/ \E i \in DOMAIN shells : ShellStart(i)
    \/ \E i \in DOMAIN shells : ShellReadEnd(i)

Spec == Init /\ [][Next]_vars

\* SpecSession: the same channel with the peer typing while requests are
\* routed.
NextSession ==
    \/ Next
    \/ PeerData
    \/ \E i \in DOMAIN shells : ShellRead(i)
    \/ \E i \in DOMAIN shells : ShellByte(i)

SpecSession == Init /\ [][NextSession]_vars

(***************************************************************************)
(* SpecExec: one exec request with any payload, on a fresh channel.        *)
(***************************************************************************)
PayloadBytes == {0, 1, 2, 128}
Payloads == UNION { [1..n -> PayloadBytes] : n \in 0..MaxPayloadLen }

InitExec ==
    /\ cmdHandler \in BOOLEAN
    /\ \E p \in Payloads : requests = <<Req("exec", p)>>
    /\ reqClosed = FALSE
    /\ reqSent = 1
    /\ routerPc = "awaiting"
    /\ shells = << >>
    /\ chanData = << >>
    /\ chanRead = "open"
    /\ dataSent = 0
    /\ typed = << >>
    /\ events = << >>
    /\ AuthIdle
    /\ LifeServing("none")
    /\ AppIdle

NextExec ==
    \/ RouterStep
    \/ PeerClose
    \/ RouterEnd

SpecExec == InitExec /\ [][NextExec]_vars

(***************************************************************************)
(* SpecShell: a shell session just started by a shell request, with the    *)
(* peer's input stream already sent.                                       *)
(***************************************************************************)
\* "echo hi\r"
EchoHi == <<101, 99, 104, 111, SP, 104, 105, CR>>

\* "abc" and a backspace
AbcBs == <<97, 98, 99, BS>>

EditBytes == {97, 98, CR, LF, DEL, BS}
Scripts ==
    UNION { [1..n -> EditBytes] : n \in 0..MaxScriptLen } \cup {EchoHi, AbcBs}

InitShell ==
    /\ cmdHandler = TRUE
    /\ requests = << >>
    /\ reqClosed = FALSE
    /\ reqSent = 1
    /\ routerPc = "awaiting"
    /\ shells = <<NewShell>>
    /\ \E script \in Scripts :
         chanData = script /\ typed = script /\ dataSent = Len(script)
    /\ chanRead = "open"
    /\ \E r \in ExecResults :
         events = HandleRequest(Req("shell", << >>), TRUE, r).evs
    /\ AuthIdle
    /\ LifeServing("running")
    /\ AppIdle

NextShell ==
    \/ \E i \in DOMAIN shells : ShellStart(i)
    \/ \E i \in DOMAIN shells : ShellRead(i)
    \/ \E i \in DOMAIN shells : ShellByte(i)
    \/ \E i \in DOMAIN shells : ShellReadEnd(i)
    \/ PeerEOF
    \/ TransportFail

SpecShell == InitShell /\ [][NextShell]_vars

(***************************************************************************)
(* SpecAuth: authentication attempts against a changing trust store.       *)
(***************************************************************************)
InitAuth ==
    /\ cmdHandler = TRUE
    /\ requests = << >>
    /\ reqClosed = FALSE
    /\ reqSent = 0
    /\ routerPc = "awaiting"
    /\ shells = << >>
    /\ chanData = << >>
    /\ chanRead = "open"
    /\ dataSent = 0
    /\ typed = << >>
    /\ events = << >>
    /\ authFile \in Files
    /\ authResult = NoAttempt
    /\ authCount = 0
    /\ LifeHandshake
    /\ AppIdle

NextAuth ==
    \/ Authenticate
    \/ SetFile

SpecAuth == InitAuth /\ [][NextAuth]_vars

(***************************************************************************)
(* SpecLife: the lifecycle of a server built by NewServer, with Start,     *)
(* Stop, the accept loop and the connections it accepts.  The variables of *)
(* the session channel are those of a channel on which nothing has         *)
(* happened.                                                               *)
(***************************************************************************)
InitLife ==
    /\ cmdHandler = TRUE
    /\ requests = << >>
    /\ reqClosed = FALSE
    /\ reqSent = 0
    /\ routerPc = "awaiting"
    /\ shells = << >>
    /\ chanData = << >>
    /\ chanRead = "open"
    /\ dataSent = 0
    /\ typed = << >>
    /\ events = << >>
    /\ AuthIdle
    /\ LifeIdle
    /\ AppIdle

NextLife ==
    \/ Start
    \/ StopCloseDone
    \/ StopCloseListener
    \/ StopWait
    \/ AcceptSelect
    \/ AcceptOk
    \/ AcceptFail
    \/ AcceptErrCheck
    \/ AcceptSpawn
    \/ \E c \in DOMAIN conns : HandshakeOk(c)
    \/ \E c \in DOMAIN conns : HandshakeFail(c)
    \/ \E c \in DOMAIN conns : OpenChannel(c)
    \/ \E c \in DOMAIN conns : ShellRequest(c)
    \/ \E c \in DOMAIN conns : PeerDisconnect(c)
    \/ \E c \in DOMAIN conns : ConnEnd(c)
    \/ \E c \in DOMAIN conns : RouterReturn(c)
    \/ \E c \in DOMAIN conns : EditorReturn(c)
    \/ \E c \in DOMAIN conns : DrainReturn(c)

SpecLife == InitLife /\ [][NextLife]_vars

\* SpecStop: the same server, whose program may call Stop again after a
\* call of Stop has returned.
SpecStop == InitLife /\ [][NextLife \/ StopAgain]_vars

\* The steps of the server's own goroutines, which the Go scheduler runs
\* whenever they can be taken: the calls of Stop after close(s.done), the
\* accept loop (Accept returns an error once the listener is closed), and a
\* connection's goroutine once its peer is gone.  Nothing obliges a peer to
\* connect or to disconnect, nor the program to call Start or Stop.
LifeFairness ==
    /\ WF_vars(StopCloseListener)
    /\ WF_vars(StopWait)
    /\ WF_vars(AcceptSelect)
    /\ WF_vars(AcceptFail /\ listener = "closed")
    /\ WF_vars(AcceptErrCheck)
    /\ WF_vars(AcceptSpawn)
    /\ WF_vars(\E c \in DOMAIN conns : HandshakeFail(c) /\ ~conns[c].peer)
    /\ WF_vars(\E c \in DOMAIN conns : ConnEnd(c))

SpecLifeFair == SpecLife /\ LifeFairness

(***************************************************************************)
(* The specifications below follow one part of the program each; the       *)
(* server's channel, its trust store and its lifecycle stay as a server     *)
(* that was never started leaves them.                                      *)
(***************************************************************************)
ServerIdle ==
    /\ cmdHandler = TRUE
    /\ requests = << >>
    /\ reqClosed = FALSE
    /\ reqSent = 0
    /\ routerPc = "awaiting"
    /\ shells = << >>
    /\ chanData = << >>
    /\ chanRead = "open"
    /\ dataSent = 0
    /\ typed = << >>
    /\ events = << >>
    /\ AuthIdle
    /\ LifeIdle

\* SpecConfig: NewServer called with any configuration, then Start.
InitConfig ==
    /\ ServerIdle
    /\ config \in Configs
    /\ server = "none"
    /\ DefaultIdle /\ FsIdle /\ GameIdle /\ ChatIdle /\ ExecIdle
    /\ GlobalIdle /\ RaceIdle

NextConfig ==
    \/ NewServerCall
    \/ Start

SpecConfig == InitConfig /\ [][NextConfig]_vars

\* SpecDefault: a DefaultCommandHandler with commands registered and executed.
InitDefault ==
    /\ ServerIdle
    /\ AppIdle

NextDefault ==
    \/ \E name \in RegisterNames : \E f \in Functions : RegisterCommand(name, f)
    \/ DefaultExecuteCall

SpecDefault == InitDefault /\ [][NextDefault]_vars

\* SpecRegister: RegisterCommand called by the program while the channels'
\* goroutines call Execute on the same DefaultCommandHandler.
NextRegister ==
    \/ \E name \in LookupInputs : \E f \in Functions : RegisterBegin(name, f)
    \/ RegisterEnd
    \/ \E i \in DOMAIN lookups : \E cmd \in LookupInputs : LookupBegin(i, cmd)
    \/ \E i \in DOMAIN lookups : LookupEnd(i)
    \/ MapFault

SpecRegister == InitDefault /\ [][NextRegister]_vars

\* SpecChat: users joining, leaving and talking in the chat room.
NextChat ==
    \/ \E u \in Usernames : AddUser(u)
    \/ \E u \in Usernames : RemoveUser(u)
    \/ BroadcastMessage

SpecChat == InitDefault /\ [][NextChat]_vars

\* SpecGame: commands sent to one GameHandler.
SpecGame == InitDefault /\ [][GameExecuteCall]_vars

\* SpecFiles: commands sent to one FileServerHandler.
SpecFiles == InitDefault /\ [][FsExecuteCall]_vars

\* SpecConcurrent: up to MaxChannels channels, each with one exec request
\* already routed to its handleChannel goroutine.
InitConcurrent ==
    /\ ServerIdle
    /\ ConfigBuilt
    /\ DefaultIdle /\ FsIdle /\ GameIdle /\ ChatIdle
    /\ GlobalIdle /\ RaceIdle
    /\ counter = 0
    /\ \E n \in 1..MaxChannels : \E cmds \in [1..n -> CustomCommands] :
          execs = [i \in 1..n |-> NewExec(cmds[i])]

NextConcurrent ==
    \/ \E i \in DOMAIN execs : ExecuteLoad(i)
    \/ \E i \in DOMAIN execs : ExecuteStore(i)
    \/ \E i \in DOMAIN execs : ExecuteReply(i)

SpecConcurrent == InitConcurrent /\ [][NextConcurrent]_vars

(***************************************************************************)
(* SpecServe: a started server that is not stopped, accepting up to        *)
(* MaxServed connections; the peers open session channels and channels of   *)
(* other types.                                                             *)
(***************************************************************************)
LifeStarted ==
    /\ listener = "open"
    /\ done = FALSE
    /\ wg = 1
    /\ acceptPc = "select"
    /\ stopPc = "idle"
    /\ startResult = "ok"
    /\ startCount = 1
    /\ acceptErrs = 0
    /\ conns = << >>

InitServe ==
    /\ cmdHandler = TRUE
    /\ requests = << >>
    /\ reqClosed = FALSE
    /\ reqSent = 0
    /\ routerPc = "awaiting"
    /\ shells = << >>
    /\ chanData = << >>
    /\ chanRead = "open"
    /\ dataSent = 0
    /\ typed = << >>
    /\ events = << >>
    /\ AuthIdle
    /\ LifeStarted
    /\ AppIdle

NextServe ==
    \/ AcceptSelect
    \/ AcceptServed
    \/ AcceptFail
    \/ AcceptErrCheck
    \/ AcceptSpawn
    \/ \E c \in DOMAIN conns : HandshakeOk(c)
    \/ \E c \in DOMAIN conns : HandshakeFail(c)
    \/ \E c \in DOMAIN conns : OpenChannel(c)
    \/ \E c \in DOMAIN conns : RejectChannel(c)
    \/ \E c \in DOMAIN conns : PeerDisconnect(c)
    \/ \E c \in DOMAIN conns : ConnEnd(c)
    \/ \E c \in DOMAIN conns : RouterReturn(c)
    \/ \E c \in DOMAIN conns : DrainReturn(c)

SpecServe == InitServe /\ [][NextServe]_vars

(***************************************************************************)
(* SpecIsolation: the channel of Spec, with a handler set, on a server      *)
(* with two connections.  Connection 1 carries the channel whose requests   *)
(* and reads are followed, and a second session channel, whose goroutines   *)
(* are conns[1].router and conns[1].editor; connection 2 is another peer's, *)
(* with a shell running.  While the channel is served, the second channel   *)
(* starts its shell, the other peer leaves, Stop is called and the accept   *)
(* loop polls.                                                              *)
(***************************************************************************)
LifeIsolation ==
    /\ listener = "open"
    /\ done = FALSE
    /\ wg = 3
    /\ acceptPc = "select"
    /\ stopPc = "idle"
    /\ startResult = "ok"
    /\ startCount = 1
    /\ acceptErrs = 0
    /\ conns = <<[NewConn(FALSE) EXCEPT !.pc = "serving", !.drain = "running",
                                        !.router = "running"],
                 [NewConn(FALSE) EXCEPT !.pc = "serving", !.drain = "running",
                                        !.router = "running",
                                        !.editor = "running"]>>

InitIsolation ==
    /\ cmdHandler = TRUE
    /\ requests = << >>
    /\ reqClosed = FALSE
    /\ reqSent = 0
    /\ routerPc = "awaiting"
    /\ shells = << >>
    /\ chanData = << >>
    /\ chanRead = "open"
    /\ dataSent = 0
    /\ typed = << >>
    /\ events = << >>
    /\ AuthIdle
    /\ LifeIsolation
    /\ AppIdle

NextIsolation ==
    \/ PeerRequest
    \/ PeerEOF
    \/ TransportFail
    \/ RouterStep
    \/ \E i \in DOMAIN shells : ShellStart(i)
    \/ \E i \in DOMAIN shells : ShellReadEnd(i)
    \/ ShellRequest(1)
    \/ PeerDisconnect(2)
    \/ StopCloseDone
    \/ AcceptSelect

SpecIsolation == InitIsolation /\ [][NextIsolation]_vars

(***************************************************************************)
(* SpecGlobal: a connection past its handshake, whose peer sends global     *)
(* requests and requests on its session channel, then leaves.               *)
(***************************************************************************)
InitGlobal ==
    /\ cmdHandler = TRUE
    /\ requests = << >>
    /\ reqClosed = FALSE
    /\ reqSent = 0
    /\ routerPc = "awaiting"
    /\ shells = << >>
    /\ chanData = << >>
    /\ chanRead = "open"
    /\ dataSent = 0
    /\ typed = << >>
    /\ events = << >>
    /\ AuthIdle
    /\ LifeServing("none")
    /\ AppIdle

NextGlobal ==
    \/ PeerGlobalRequest(1)
    \/ DrainStep(1)
    \/ DrainReturn(1)
    \/ PeerDisconnect(1)
    \/ PeerRequest
    \/ RouterStep

\* The drain goroutine is scheduled whenever it can take a step.
SpecGlobal ==
    /\ InitGlobal
    /\ [][NextGlobal]_vars
    /\ WF_vars(DrainStep(1))
    /\ WF_vars(DrainReturn(1))

(***************************************************************************)
(* Properties.                                                             *)
(***************************************************************************)
\* The events a step appends to the log.
Appended == SubSeq(events', Len(events) + 1, Len(events'))

\* The step is an iteration of handleChannel's loop: it takes a request.
RouterTakes == routerPc = "awaiting" /\ requests # << >> /\ requests' = Tail(requests)

\* The positions of the log where handleChannel receives a request of type t.
RecvAt(t) == { i \in DOMAIN events : events[i].op = "recv" /\ events[i].type = t }

\* The reply to the request received at position i: handleChannel replies to
\* every request within the iteration that receives it.
ReplyOf(i) ==
    events[CHOOSE j \in (i + 1)..Len(events) :
               /\ events[j].op = "reply"
               /\ \A k \in (i + 1)..(j - 1) : events[k].op # "reply"]

HasReply(i) == \E j \in (i + 1)..Len(events) : events[j].op = "reply"

\* The calls handleChannel has made, in order.
RouterLog == SelectSeq(events, LAMBDA e : e.who = Router)

\* The big-endian value of the first four bytes exceeds n (0 <= n < 2^16).
DeclaredExceeds(p, n) == p[1] > 0 \/ p[2] > 0 \/ p[3] * 256 + p[4] > n

\* The payloads the codec must refuse.
Malformed(p) ==
    \/ Len(p) < 4
    \/ (Len(p) >= 4 /\ p[1] = 0 /\ p[2] = 0 /\ p[3] = 0 /\ p[4] = 0)
    \/ (Len(p) >= 4 /\ DeclaredExceeds(p, Len(p) - 4))

Commands ==
    UNION { [1..n -> PayloadBytes] : n \in 0..(MaxPayloadLen - LenFieldSize) }

RoundTrip(cs) ==
    \A i \in RecvAt("exec") :
        \A c \in cs :
            events[i].data = EncodeExec(c) =>
                /\ parseExecPayload(events[i].data)
                       = [ok |-> TRUE, cmd |-> c, panic |-> FALSE]
                /\ cmdHandler =>
                       \E j \in DOMAIN events :
                           /\ events[j].op = "execute"
                           /\ events[j].data = c

\* C2, as stated: every command string, encoded as a 4-byte big-endian
\* length followed by its bytes, is decoded by parseExecPayload to itself
\* with no error.
C2_RoundTripEveryCommand == RoundTrip(Commands)

\* C2, amended: every non-empty command string, encoded as a 4-byte
\* big-endian length followed by its bytes, is decoded by parseExecPayload
\* to itself with no error (the empty command encodes to a declared length
\* of zero, which is refused).
C2_RoundTripNonEmpty == RoundTrip(Commands \ {<< >>})

C2_Witness ==
    /\ cmdHandler
    /\ \E i \in RecvAt("exec") :
         /\ events[i].data = EncodeExec(<<1, 2>>)
         /\ Len(events) > i
         /\ events[i + 1].op = "execute"
         /\ events[i + 1].data = <<1, 2>>

\* The trust store read by the latest attempt holds a key whose fingerprint
\* is fp.
StoreHas(fp) ==
    \E n \in DOMAIN authResult.file.lines :
        /\ authResult.file.lines[n].valid
        /\ FingerprintSHA256(authResult.file.lines[n].key) = fp

\* C3: validatePublicKey accepts, with permissions carrying the presented
\* key's fingerprint, exactly when the trust store holds an entry whose
\* fingerprint equals the presented key's fingerprint as a whole value.
C3_AcceptIffFingerprintInStore ==
    (authResult.attempted /\ authResult.file.readable) =>
        /\ authResult.result.accepted
               <=> StoreHas(FingerprintSHA256(authResult.key))
        /\ authResult.result.accepted
               => authResult.result.fp = FingerprintSHA256(authResult.key)

\* Accepted on the second entry, after an entry whose fingerprint shares
\* only its first digit with the presented one.
C3_Witness ==
    /\ authResult.attempted
    /\ authResult.result.accepted
    /\ authResult.key = <<1, 1>>
    /\ authResult.file = Readable(<<KeyLine(<<2>>), KeyLine(<<2, 2>>)>>)

\* C4: an attempt made while the trust-store file cannot be read is
\* rejected, with no permissions, whatever key is presented.
C4_UnreadableStoreRejects ==
    (authResult.attempted /\ ~authResult.file.readable) =>
        authResult.result = Rejected

C4_Witness ==
    /\ authResult.attempted
    /\ ~authResult.file.readable
    /\ authResult.key = <<1>>
    /\ ~authResult.result.accepted

\* The handleShell goroutine started by the spawn at position i of the log.
ShellOf(i) == Cardinality({ j \in 1..i : events[j].op = "spawn" })

SpawnAt == { i \in DOMAIN events : events[i].op = "spawn" }

\* The positions after i at which handleChannel made a call.
RouterAfter(i) == { j \in (i + 1)..Len(events) : events[j].who = Router }

C6_ShellExcludesExec ==
    \A i \in SpawnAt :
        \A j \in RouterAfter(i) :
            /\ events[j].op \notin {"execute", "exit-status"}
            /\ ~(events[j].op = "close" /\ events[j - 1].op = "exit-status")

\* The exec request received at position i is served: Execute is called
\* once with the decoded text, then its output and a line feed are written,
\* then its status is sent as the exit status, then the channel is closed,
\* and handleChannel has returned.
ExecServed(i) ==
    LET T == parseExecPayload(events[i].data).cmd
        X == { j \in DOMAIN events :
                 events[j].who = Router /\ events[j].op = "execute" }
    IN /\ X # {}
       /\ \A a \in X :
              /\ X = {a}
              /\ a > i
              /\ events[a].data = T
              /\ \E b, c, d \in RouterAfter(a) :
                     /\ b < c /\ c < d
                     /\ events[b] = EvWrite(Router, events[a].out \o <<LF>>)
                     /\ events[c] = EvExit(events[a].status)
                     /\ events[d] = EvClose(Router)
                     /\ \A k \in RouterAfter(a) :
                            /\ events[k].op = "write" => k = b
                            /\ events[k].op = "exit-status" => k = c
                            /\ events[k].op = "close" => k = d
                            /\ k <= d
       /\ routerPc = "returned"

\* C7, as stated: every exec request whose payload decodes is served.
C7_DecodedExecServed ==
    \A i \in RecvAt("exec") :
        parseExecPayload(events[i].data).ok => ExecServed(i)

\* C7, amended: when a command handler is set, an exec request whose
\* payload decodes to T has Execute invoked exactly once with T, then the
\* output and a line terminator written, then the exit status equal to the
\* status Execute returned sent, then the channel closed; no second command
\* is executed through the exec path.  (With no handler set the request is
\* refused and nothing is executed.)
C7_DecodedExecServedWithHandler ==
    \A i \in RecvAt("exec") :
        (cmdHandler /\ parseExecPayload(events[i].data).ok) => ExecServed(i)

\* Served with the non-zero status the handler returned.
C7_Witness ==
    /\ cmdHandler
    /\ routerPc = "returned"
    /\ \E i \in RecvAt("exec") :
           /\ events[i].data = EncodeExec(<<97>>)
           /\ Len(events) = i + 5
           /\ events[i + 1].op = "execute"
           /\ events[i + 1].status = 1
           /\ events[i + 4] = EvExit(1)
           /\ events[i + 5] = EvClose(Router)

\* After the negative reply at position i + 1 the router still awaits
\* requests: it has made no further call, or its next call is the receipt
\* of a request, or the request stream has ended.
NegAckStays(i) ==
    events[i + 1] = EvReply(FALSE) =>
        IF RouterAfter(i + 1) = {}
        THEN routerPc = "awaiting"
        ELSE LET n == CHOOSE j \in RouterAfter(i + 1) :
                          \A k \in RouterAfter(i + 1) : j <= k
             IN \/ events[n].op = "recv"
                \/ (events[n].op = "close" /\ reqClosed)

C9_PtyAndUnknownOnlyReply ==
    [][ (RouterTakes /\ Head(requests).type \notin {"shell", "exec"}) =>
            /\ Appended = <<EvRecv(Head(requests)),
                            EvReply(Head(requests).type = "pty-req")>>
            /\ routerPc' = "awaiting"
            /\ shells' = shells ]_vars

C9_Witness ==
    /\ routerPc = "awaiting"
    /\ events = <<EvRecv(Req("pty-req", << >>)), EvReply(TRUE),
                  EvRecv(Req("env", << >>)), EvReply(FALSE)>>

\* The step is an iteration of handleShell's loop over the bytes read, by
\* goroutine g.
ShellTakes(g) ==
    /\ shells[g].pc = "loop"
    /\ shells'[g].buf = Tail(shells[g].buf)

\* The input stream of the session is "echo hi\r" (the one stream of
\* InitShell of that length) and has been consumed.
EchoHiConsumed ==
    /\ dataSent = Len(EchoHi)
    /\ chanData = << >>
    /\ shells[1].buf = << >>

\* C10: a CR or LF byte met while cmdBuffer is non-empty invokes Execute
\* once with the buffer's content, writes line break, output, line break
\* and prompt, and leaves the buffer empty; the input "echo hi\r"
\* dispatches exactly one command, "echo hi".
C10_TerminatorDispatchesBuffer ==
    /\ [][ \A g \in DOMAIN shells :
             (ShellTakes(g) /\ Head(shells[g].buf) \in {CR, LF}
                 /\ shells[g].cmdBuffer # << >>) =>
                 /\ Len(Appended) = 2
                 /\ Appended[1].op = "execute"
                 /\ Appended[1].who = g
                 /\ Appended[1].data = shells[g].cmdBuffer
                 /\ Appended[2] = EvWrite(g, <<CR, LF>> \o Appended[1].out
                                            \o <<CR, LF>> \o Prompt)
                 /\ shells'[g].cmdBuffer = << >> ]_vars
    /\ [](EchoHiConsumed =>
             /\ shells[1].cmdBuffer = << >>
             /\ \E j \in DOMAIN events :
                    /\ events[j].op = "execute"
                    /\ events[j].data = <<101, 99, 104, 111, 32, 104, 105>>
                    /\ \A k \in DOMAIN events :
                           events[k].op = "execute" => k = j)

C10_Witness ==
    /\ EchoHiConsumed
    /\ shells[1].cmdBuffer = << >>
    /\ \E j \in DOMAIN events :
           /\ events[j].op = "execute"
           /\ events[j].data = <<101, 99, 104, 111, 32, 104, 105>>
           /\ Len(events) = j + 1
           /\ events[j + 1].op = "write"

\* The bytes of the session's input that handleShell has taken out of its
\* read buffer (the session of SpecShell has one handleShell goroutine).
Consumed == SubSeq(typed, 1, Len(typed) - Len(chanData) - Len(shells[1].buf))

\* The whole input of the session is `script` and has been consumed.
ScriptConsumed(script) == typed = script /\ Consumed = script

ExecuteAt == { j \in DOMAIN events : events[j].op = "execute" }

\* C11: a CR or LF byte met while cmdBuffer is empty invokes no Execute: it
\* writes a line break and the prompt only and leaves the buffer empty; so
\* the input "a\r\n" dispatches the command "a" exactly once.
C11_EmptyTerminatorNoDispatch ==
    /\ [][ \A g \in DOMAIN shells :
             (ShellTakes(g) /\ Head(shells[g].buf) \in {CR, LF}
                 /\ shells[g].cmdBuffer = << >>) =>
                 /\ Appended = <<EvWrite(g, <<CR, LF>> \o Prompt)>>
                 /\ shells'[g].cmdBuffer = << >> ]_vars
    /\ [](ScriptConsumed(<<97, CR, LF>>) =>
             /\ Cardinality(ExecuteAt) = 1
             /\ \A j \in ExecuteAt : events[j].data = <<97>>)

C11_Witness ==
    /\ ScriptConsumed(<<97, CR, LF>>)
    /\ Cardinality(ExecuteAt) = 1
    /\ events[Len(events)] = EvWrite(1, <<CR, LF>> \o Prompt)
    /\ events[Len(events) - 1].op = "write"
    /\ events[Len(events) - 2].op = "execute"
    /\ shells[1].cmdBuffer = << >>

\* C12: a 0x7f or 0x08 byte met while cmdBuffer is non-empty removes the
\* buffer's last byte and writes 0x08 0x20 0x08; met while it is empty it
\* changes nothing and writes nothing; after "abc" and a backspace the
\* buffer is "ab".
C12_BackspaceDropsLastByte ==
    /\ [][ \A g \in DOMAIN shells :
             (ShellTakes(g) /\ Head(shells[g].buf) \in {DEL, BS}) =>
                 IF shells[g].cmdBuffer # << >>
                 THEN /\ shells'[g].cmdBuffer
                           = SubSeq(shells[g].cmdBuffer, 1,
                                    Len(shells[g].cmdBuffer) - 1)
                      /\ Appended = <<EvWrite(g, <<8, 32, 8>>)>>
                 ELSE /\ shells'[g].cmdBuffer = << >>
                      /\ Appended = << >> ]_vars
    /\ [](ScriptConsumed(AbcBs) => shells[1].cmdBuffer = <<97, 98>>)

C12_Witness ==
    /\ ScriptConsumed(AbcBs)
    /\ shells[1].cmdBuffer = <<97, 98>>
    /\ events[Len(events)] = EvWrite(1, <<8, 32, 8>>)
    /\ events[Len(events) - 1] = EvWrite(1, <<99>>)

\* The content of the command buffer that an input calls for: the bytes
\* typed since the last line terminator, each erase byte having cancelled
\* the byte that remained before it.
RECURSIVE Pending(_)
Pending(input) ==
    IF input = << >>
    THEN << >>
    ELSE LET before == Pending(SubSeq(input, 1, Len(input) - 1))
             b == input[Len(input)]
         IN IF b \in {13, 10}
            THEN << >>
            ELSE IF b \in {127, 8}
                 THEN SubSeq(before, 1, Len(before) - 1)
                 ELSE Append(before, b)

\* C13: every byte other than CR, LF, 0x7f and 0x08 is appended to
\* cmdBuffer and echoed as that one byte; the buffer never holds a CR, LF,
\* 0x7f or 0x08 byte, and it equals the bytes typed since the last
\* terminator with each erase byte having cancelled the preceding
\* remaining byte.
C13_BufferIsPendingInput ==
    /\ [][ \A g \in DOMAIN shells :
             (ShellTakes(g) /\ Head(shells[g].buf) \notin {13, 10, 127, 8}) =>
                 /\ shells'[g].cmdBuffer
                        = Append(shells[g].cmdBuffer, Head(shells[g].buf))
                 /\ Appended = <<EvWrite(g, <<Head(shells[g].buf)>>)>> ]_vars
    /\ [](\A k \in DOMAIN shells[1].cmdBuffer :
             shells[1].cmdBuffer[k] \notin {13, 10, 127, 8})
    /\ [](shells[1].cmdBuffer = Pending(Consumed))

\* "a", an erase byte, "b": the buffer is "b".
C13_Witness ==
    /\ ScriptConsumed(<<97, DEL, 98>>)
    /\ shells[1].cmdBuffer = <<98>>
    /\ events[Len(events)] = EvWrite(1, <<98>>)

\* A read of goroutine g would return an error: the transport has failed,
\* or the peer has ended the stream and its data is drained.
ReadFails == chanRead = "err" \/ (chanRead = "eof" /\ chanData = << >>)

\* C14: handleShell returns at the first channel.Read that returns io.EOF
\* or another error; the bytes then held in cmdBuffer are not executed, the
\* channel is closed by the goroutine, which makes no call afterwards, and
\* handleChannel, the other goroutines and the server's lifecycle are left
\* as they were.
C14_ReadErrorEndsLoop ==
    /\ [][ \A g \in DOMAIN shells :
             (shells[g].pc = "read" /\ ReadFails) =>
                 \/ shells'[g] = shells[g]
                 \/ /\ shells'[g].pc = "returned"
                    /\ Appended = (IF chanRead = "err"
                                   THEN <<EvReadError(g)>> ELSE << >>)
                                  \o <<EvClose(g)>>
                    /\ \A h \in DOMAIN shells : h # g => shells'[h] = shells[h]
                    /\ UNCHANGED <<routerPc, requests, reqClosed, lifeVars>> ]_vars
    /\ [][ \A g \in DOMAIN shells :
             shells[g].pc = "returned" =>
                 /\ shells'[g] = shells[g]
                 /\ \A k \in DOMAIN Appended : Appended[k].who # g ]_vars

\* The transport fails while "a" is in the buffer: the loop ends, "a" is
\* never executed.
C14_Witness ==
    /\ shells[1].pc = "returned"
    /\ shells[1].cmdBuffer = <<97>>
    /\ chanRead = "err"
    /\ ExecuteAt = {}
    /\ events[Len(events)] = EvClose(1)
    /\ events[Len(events) - 1] = EvReadError(1)

\* The accept loop's goroutine has been started and has not returned.
AcceptRunning == acceptPc \notin {"none", "returned"}

\* The handleConnection goroutine of connection c is running.
Supervising(c) == conns[c].pc \in {"handshake", "serving"}

\* The goroutines registered in the WaitGroup that have not returned.
TrackedRunning ==
    (IF AcceptRunning THEN 1 ELSE 0)
    + Cardinality({ c \in DOMAIN conns : Supervising(c) })

\* The step is the return of Stop with nil, after s.wg.Wait().
StopReturnsNil == stopPc # "returned" /\ stopPc' = "returned"

\* The step is a return of Stop, with nil or with an error.
StopReturns ==
    stopPc \notin {"returned", "failed"} /\ stopPc' \in {"returned", "failed"}

C16_NoGoroutineRunsAfterStop ==
    [][ StopReturnsNil =>
            \A c \in DOMAIN conns :
                /\ conns[c].router # "running"
                /\ conns[c].editor # "running"
                /\ conns[c].drain # "running" ]_vars

\* No peer is connected and the accept loop holds no connection.
PeersGone == acceptPc # "got" /\ \A c \in DOMAIN conns : ~conns[c].peer

\* Shutdown closes nothing that is live: while its peer stays connected a
\* served connection keeps its handleConnection goroutine and the
\* goroutines of its channel.
LiveConnectionsKept ==
    \A c \in DOMAIN conns :
        (conns[c].peer /\ conns'[c].peer) =>
            /\ conns[c].pc = "serving" => conns'[c].pc = "serving"
            /\ conns[c].router = "running" => conns'[c].router = "running"
            /\ conns[c].editor = "running" => conns'[c].editor = "running"
            /\ conns[c].drain = "running" => conns'[c].drain = "running"

C18_AcceptErrorContinuesUnlessDone ==
    /\ [][ (acceptPc = "err" /\ acceptPc' # "err") =>
               IF done
               THEN acceptPc' = "returned" /\ wg' = wg - 1
               ELSE acceptPc' = "select" /\ wg' = wg ]_vars
    /\ [][ (acceptPc = "select" /\ acceptPc' # "select" /\ ~done) =>
               acceptPc' = "accept" ]_vars
    /\ ((listener = "closed") ~> (acceptPc = "returned"))

\* A connection is accepted after an accept error, the marker being unset.
C18_Witness ==
    /\ acceptErrs = 1
    /\ ~done
    /\ acceptPc = "got"
    /\ Len(conns) = 1
    /\ conns[1].pc = "accepted"

\* C19: every connection Accept returns, also one returned after s.done
\* was closed and before the listener was closed, is handed to exactly one
\* handleConnection goroutine, registered in the counter by the accept loop
\* while the loop itself is still registered: the counter equals the number
\* of registered goroutines that are running, so Stop's wait does not see
\* zero before the connection is handled; no accepted connection is left
\* without a goroutine.
C19_AcceptedConnectionIsTracked ==
    /\ [](wg = TrackedRunning)
    /\ [](\A c \in DOMAIN conns :
             conns[c].pc = "accepted" => (c = Len(conns) /\ acceptPc = "got"))
    /\ [][ acceptPc = "got" =>
               \/ acceptPc' = "got" /\ conns'[Len(conns)].pc = "accepted"
               \/ /\ acceptPc' = "select"
                  /\ conns'[Len(conns)].pc = "handshake"
                  /\ wg >= 1
                  /\ wg' = wg + 1 ]_vars
    /\ [][ \A c \in DOMAIN conns :
               conns[c].pc # "accepted" => conns'[c].pc # "accepted" ]_vars
    /\ [][ StopReturnsNil =>
               \A c \in DOMAIN conns : conns[c].pc = "returned" ]_vars

\* A connection accepted after close(s.done) has its goroutine, and Stop
\* is waiting for it.
C19_Witness ==
    /\ stopPc = "waiting"
    /\ Len(conns) = 1
    /\ conns[1].late
    /\ conns[1].pc = "serving"
    /\ conns[1].peer
    /\ acceptPc = "returned"
    /\ wg = 1

\* C20: when net.Listen fails Start returns an error and starts nothing:
\* no accept loop, no increment of the counter, no listener stored.
C20_BindErrorStartsNothing ==
    /\ [][ (startCount' = startCount + 1 /\ startResult' = "error") =>
               UNCHANGED <<listener, wg, acceptPc, done, conns>> ]_vars
    /\ [](startResult = "error" =>
             /\ listener = "nil"
             /\ acceptPc = "none"
             /\ wg = 0
             /\ conns = << >>)

C20_Witness ==
    /\ startResult = "error"
    /\ startCount = 1
    /\ listener = "nil"
    /\ acceptPc = "none"
    /\ wg = 0

\* Authentication is required and the authorized-keys file the
\* configuration names is not in the file system.
KeysFileMissing ==
    /\ ~config.NoClientAuth
    /\ config.AuthorizedKeysFile = "absent"

\* C21: when authentication is required and the authorized-keys file is
\* missing, NewServer returns an error and no Server, so no socket is ever
\* bound for that configuration: Start is never run, no listener exists and
\* no accept loop is started.
C21_MissingKeysFileBuildsNoServer ==
    KeysFileMissing =>
        /\ server \in {"none", "failed"}
        /\ startCount = 0
        /\ listener = "nil"
        /\ acceptPc = "none"
        /\ wg = 0

\* NewServer has returned its error for a configuration whose only fault is
\* the missing file.
C21_Witness ==
    /\ KeysFileMissing
    /\ config.ListenAddress = ":2222"
    /\ config.HostKeyFile = "key"
    /\ config.LogWriter = DefaultConfig.LogWriter
    /\ server = "failed"

\* The exec payloads whose declared length L satisfies
\* 1 <= L <= len(payload) - 4, and L itself.
DeclaredWithin(p) ==
    /\ Len(p) >= 4
    /\ p[1] = 0
    /\ p[2] = 0
    /\ p[3] * 256 + p[4] >= 1
    /\ p[3] * 256 + p[4] <= Len(p) - 4

\* C30: for an exec payload whose declared big-endian length L satisfies
\* 1 <= L <= len(payload) - 4, parseExecPayload succeeds and returns exactly
\* the L bytes that follow the length field (they are the command handed to
\* Execute); bytes after those L bytes are ignored and cause no failure.
C30_ExactlyDeclaredBytes ==
    \A i \in RecvAt("exec") :
        LET p == events[i].data IN
        DeclaredWithin(p) =>
            LET L == p[3] * 256 + p[4]
                command == [k \in 1..L |-> p[4 + k]]
            IN  /\ parseExecPayload(p)
                       = [ok |-> TRUE, cmd |-> command, panic |-> FALSE]
                /\ routerPc # "panicked"
                /\ cmdHandler =>
                       /\ Len(events) > i
                       /\ events[i + 1].op = "execute"
                       /\ events[i + 1].data = command

\* A payload of declared length 1 followed by two more bytes: the command
\* executed is the one byte.
C30_Witness ==
    /\ cmdHandler
    /\ Len(events) >= 2
    /\ events[1] = EvRecv(Req("exec", <<0, 0, 0, 1, 2, 128>>))
    /\ events[2].op = "execute"
    /\ events[2].data = <<2>>

\* The bytes of s between its first and its last byte that is no white
\* space, both included; empty when s is all white space.
Blank(b) == b = 32 \/ b = 9 \/ b = 10 \/ b = 13
Inked(s) == { k \in DOMAIN s : ~Blank(s[k]) }
Trimmed(s) ==
    IF Inked(s) = {} THEN << >>
    ELSE LET first == CHOOSE k \in Inked(s) : \A m \in Inked(s) : k <= m
             last == CHOOSE k \in Inked(s) : \A m \in Inked(s) : k >= m
         IN  [k \in 1..(last - first + 1) |-> s[first + k - 1]]

\* What Execute owes for cmd when the map is cmds and r is what it returned.
ExecuteContract(cmds, cmd, r) ==
    LET name == Trimmed(cmd) IN
    /\ name = << >> => r.kind = "empty" /\ r.status = 0
    /\ (name # << >> /\ name \in DOMAIN cmds) =>
          /\ r.fn = cmds[name]
          /\ \/ r.kind = "output" /\ r.status = 0
                   /\ "output" \in HandlerReturns(cmds[name])
             \/ r.kind = "error" /\ r.status = 1
                   /\ "error" \in HandlerReturns(cmds[name])
    /\ (name # << >> /\ name \notin DOMAIN cmds) =>
          r.kind = "unknown" /\ r.cmd = name /\ r.status = 1

\* The step is a call of RegisterCommand, of Execute.
Registers == defLast' # defLast /\ defLast'.result.kind = "registered"
Executes == defLast' # defLast /\ defLast'.result.kind # "registered"

\* The function the call of Execute ran, for a result r.
Ran(r, f) == r.kind \in {"output", "error"} /\ r.fn = f

\* C26, as stated: Execute trims the command; it returns ("", 0) for an
\* empty command, the registered function's output with status 0 or an
\* error text with status 1 for a registered name, and an "Unknown command"
\* text with status 1 for any other; after RegisterCommand(name, f), for
\* any name, the map holds f for name (replacing an earlier function) and
\* Execute(name) runs f.
C26_ExecuteRunsEveryRegisteredName ==
    [][/\ Registers => commands'[defLast'.cmd] = defLast'.result.fn
       /\ Executes =>
            /\ ExecuteContract(commands, defLast'.cmd, defLast'.result)
            /\ defLast'.cmd \in DOMAIN commands =>
                   Ran(defLast'.result, commands[defLast'.cmd])]_vars

\* C26, amended: as stated, except that Execute(name) runs the function
\* registered under name only for a name that is not empty and neither
\* begins nor ends with white space: Execute looks up the trimmed command,
\* so a function registered under any other name is never run.
C26_ExecuteRunsTrimmedRegisteredName ==
    [][/\ Registers => commands'[defLast'.cmd] = defLast'.result.fn
       /\ Executes =>
            /\ ExecuteContract(commands, defLast'.cmd, defLast'.result)
            /\ (/\ defLast'.cmd \in DOMAIN commands
                /\ defLast'.cmd # << >>
                /\ Trimmed(defLast'.cmd) = defLast'.cmd) =>
                   Ran(defLast'.result, commands[defLast'.cmd])
            /\ (/\ defLast'.cmd \in DOMAIN commands
                /\ Trimmed(defLast'.cmd) # defLast'.cmd
                /\ Trimmed(defLast'.cmd) \notin DOMAIN commands) =>
                   ~Ran(defLast'.result, commands[defLast'.cmd])]_vars

\* "hello" was registered again, with "E", and " h" with "A"; Execute of
\* "hello\r\n" ran "E" and returned its error with status 1.
C26_Witness ==
    /\ defCount = 2
    /\ Hello \in DOMAIN commands
    /\ commands[Hello] = "E"
    /\ defLast.cmd = Hello \o <<CR, LF>>
    /\ defLast.result = DefaultResult("error", NoCommand, "E", 1)

\* path is root or a descendant of root.
IsUnder(root, path) ==
    /\ Len(path) >= Len(root)
    /\ \A k \in DOMAIN root : path[k] = root[k]

\* The call resolves a target: it names a path and the command reaches the
\* resolution of it.
ResolvesTarget(call) ==
    /\ call.hasArg
    /\ call.cmd \in {"cd", "ls", "tree", "cat", "stat", "download", "head",
                      "tail"}
    /\ call.count # "not a number"

\* C27: after any sequence of commands with relative or absolute path
\* arguments, ".." components included, the file server's current
\* directory is the root or a descendant of it; every command whose
\* resolved target lies outside the root returns "Error: Access denied"
\* with status 1 and leaves the current directory unchanged; and no
\* command touches a path outside the root.
C27_PathsStayUnderRoot ==
    /\ IsUnder(rootDir, currentDir)
    /\ \A call \in FsCalls : \A r \in FsExecute(currentDir, call) :
          /\ IsUnder(rootDir, r.dir)
          /\ \A k \in DOMAIN r.touched : IsUnder(rootDir, r.touched[k])
          /\ (/\ ResolvesTarget(call)
              /\ ~IsUnder(rootDir, resolvePath(currentDir, call.arg))) =>
                 /\ r.out = "Error: Access denied"
                 /\ r.status = 1
                 /\ r.dir = currentDir

\* In a directory two levels below the root, a cat was denied.
C27_Witness ==
    /\ currentDir = <<"srv", "a", "srv">>
    /\ fsLast.cmd = "cat"
    /\ fsLast.out = "Error: Access denied"
    /\ fsLast.status = 1

\* C28: within one started guessing game at most 7 guesses are evaluated
\* (the attempts counter never exceeds maxAttempts = 7), and the points
\* awarded for a correct guess are (7 - attempts used + 1) * 10, hence
\* between 10 and 70.
C28_SevenGuessesTenToSeventyPoints ==
    /\ game.CurrentGame = "guess" => game.attempts <= maxAttempts
    /\ gameLast.out = "won" =>
          /\ gameLast.points = (maxAttempts - game.attempts + 1) * 10
          /\ gameLast.points >= 10
          /\ gameLast.points <= 70

\* The n-th message recorded has rank n: the most recent messages, at most
\* maxMsgs of them, in order of arrival.
MostRecent ==
    LET n == IF recorded < maxMsgs THEN recorded ELSE maxMsgs IN
    [i \in 1..n |-> recorded - n + i]

\* C29: the chat room's history holds at most 100 messages; when a message
\* is recorded while 100 are held the oldest is discarded, and the history
\* is the 100 most recent messages in order of arrival.
C29_HistoryIsLastHundred ==
    /\ Len(messages) <= maxMsgs
    /\ messages = MostRecent

\* 102 messages were recorded: the history begins with the third.
C29_Witness ==
    /\ recorded = maxMsgs + 2
    /\ Len(messages) = maxMsgs
    /\ messages[1] = 3
    /\ messages[maxMsgs] = maxMsgs + 2

\* Every exec request has been answered.
AllDone == \A i \in DOMAIN execs : execs[i].pc = "done"

\* C23: for N exec requests issued concurrently on N distinct channels
\* against one shared handler that counts its invocations, after all have
\* completed the count equals N, and each channel has received the output
\* and exit status of its own invocation and of no other.
C23_CountEqualsRequests ==
    AllDone =>
        /\ counter = Len(execs)
        /\ \A i \in DOMAIN execs :
              /\ execs[i].out = CustomExecute(execs[i].cmd).out
              /\ execs[i].status = CustomExecute(execs[i].cmd).status

\* The handshake of connection c fails in this step.
HandshakeFails(c) == conns[c].pc = "handshake" /\ conns'[c].pc = "returned"

\* The accept loop is running: it has not returned.
AcceptLoopRuns == acceptPc \in {"select", "accept", "got", "err"}

\* C22: a handshake or authentication failure on one connection is fatal
\* only to that connection: the connection is closed and its goroutine
\* returns without having started any other; the accept loop, the listener
\* and the shutdown marker are as they were and the loop keeps running;
\* every other connection, with its channels, is unchanged, and connections
\* are still accepted and served afterwards.
C22_HandshakeFailureIsLocal ==
    /\ [][\A c \in DOMAIN conns :
            HandshakeFails(c) =>
                /\ ~conns'[c].peer
                /\ conns'[c].drain = "none"
                /\ conns'[c].router = "none"
                /\ conns'[c].editor = "none"
                /\ wg' = wg - 1
                /\ UNCHANGED <<acceptPc, listener, done, acceptErrs, stopPc>>
                /\ DOMAIN conns' = DOMAIN conns
                /\ \A d \in DOMAIN conns \ {c} : conns'[d] = conns[d]]_vars
    /\ [](AcceptLoopRuns /\ listener = "open")

\* The first connection failed its handshake while the second was served;
\* the second has a session channel and the loop is accepting.
C22_Witness ==
    /\ Len(conns) = 2
    /\ conns[1].pc = "returned"
    /\ conns[1].drain = "none"
    /\ ~conns[1].late
    /\ conns[2].pc = "serving"
    /\ conns[2].peer
    /\ conns[2].router = "running"
    /\ acceptPc = "accept"

\* A channel-open event of connection c is rejected in this step.
Rejects(c) == conns'[c].rejected # conns[c].rejected

\* C24: a channel-open event whose type is not "session" is rejected with
\* the unknown-channel-type reason; no handleChannel goroutine (nor any
\* other) is started for it, no operation of the command handler is
\* invoked, and handleConnection stays in its loop, where it serves later
\* channel-open events.
C24_NonSessionChannelRejected ==
    [][\A c \in DOMAIN conns :
          Rejects(c) =>
              /\ conns'[c] = [conns[c] EXCEPT !.rejected = "UnknownChannelType"]
              /\ conns'[c].pc = "serving"
              /\ \A d \in DOMAIN conns \ {c} : conns'[d] = conns[d]
              /\ UNCHANGED <<wg, acceptPc, listener, done>>
              /\ UNCHANGED <<events, shells, routerPc>>
              /\ UNCHANGED appVars]_vars

\* After a rejection the connection has a session channel with its router
\* running, and its supervisor is in its loop.
C24_Witness ==
    /\ Len(conns) >= 1
    /\ conns[1].rejected = "UnknownChannelType"
    /\ conns[1].pc = "serving"
    /\ conns[1].router = "running"
    /\ conns[1].peer

\* The step reports an error local to the channel: a request is refused
\* (with a handler set: a malformed exec or an unsupported type), or a read
\* of the channel fails.
LocalError ==
    \E k \in DOMAIN Appended :
        \/ Appended[k] = EvReply(FALSE)
        \/ Appended[k].op = "read-error"

ExecOutputAt ==
    { j \in DOMAIN events :
        /\ j > 1
        /\ events[j].op = "write" /\ events[j].who = Router
        /\ events[j - 1].op = "execute" /\ events[j - 1].who = Router }

\* The position where handleChannel received the request it is serving at
\* position j: the latest receive before j.
ServedAt(j) ==
    CHOOSE i \in 1..(j - 1) :
        /\ events[i].op = "recv"
        /\ \A k \in (i + 1)..(j - 1) : events[k].op # "recv"

\* C31: on the exec path the positive acknowledgement of the exec request
\* is sent after decoding succeeded and before the handler's output is
\* written to the channel: every output write is preceded, within the
\* serving of its request, by the reply TRUE.
C31_AckBeforeOutput ==
    \A j \in ExecOutputAt :
        \E k \in (ServedAt(j) + 1)..(j - 1) : events[k] = EvReply(TRUE)

\* The position of the spawn that started the shell goroutine n.
SpawnOf(n) ==
    CHOOSE i \in SpawnAt : Cardinality({ s \in SpawnAt : s <= i }) = n

\* C35: when a shell's line editor loop ends, an exit-status message is
\* sent on the channel before the loop's goroutine closes the channel.
C35_ShellExitStatusBeforeClose ==
    \A j \in DOMAIN events :
        (events[j].op = "close" /\ events[j].who # Router)
            => \E k \in (SpawnOf(events[j].who) + 1)..(j - 1) :
                   events[k].op = "exit-status"

\* The positions where the welcome message is written.
WelcomeAt ==
    { i \in DOMAIN events :
        events[i] = EvWrite(Router, WelcomeMessage \o <<LF>>) }

\* C36: a session channel carries one shell or exec interaction: at most
\* one line editor loop is started on it and the welcome message is written
\* at most once, whatever requests the peer sends.
C36_OneShellPerChannel ==
    /\ Cardinality(SpawnAt) <= 1
    /\ Cardinality(WelcomeAt) <= 1
    /\ Len(shells) <= 1

(***************************************************************************)
(* The trust store is read on every attempt.                               *)
(***************************************************************************)

\* The step is an authentication attempt.
Attempts == authCount' = authCount + 1

\* The file holds, at the time of the step, a key with the fingerprint of k.
FileHas(file, k) ==
    /\ file.readable
    /\ \E n \in DOMAIN file.lines :
          /\ file.lines[n].valid
          /\ FingerprintSHA256(file.lines[n].key) = FingerprintSHA256(k)

\* C33: the trust store is read fresh on every authentication attempt: the
\* outcome of an attempt is decided by the contents of the file at the time
\* of that attempt, whatever earlier attempts read or answered, so that a
\* key removed from the file is rejected and a key added to it is accepted
\* on the next attempt.
C33_StoreReadOnEveryAttempt ==
    [][Attempts =>
          /\ authResult'.file = authFile
          /\ authResult'.result.accepted <=> FileHas(authFile, authResult'.key)]_vars

\* A key accepted by one attempt is rejected by the next one, the file
\* having lost its entry in between.
C33_Witness ==
    /\ authResult.attempted
    /\ authResult.earlier.same
    /\ authResult.earlier.accepted
    /\ ~authResult.result.accepted
    /\ authResult.file.readable

(***************************************************************************)
(* Config.Validate.                                                        *)
(***************************************************************************)

\* The path is unset or names a file that does not exist.
Missing(path) == path = "" \/ path = "absent"

\* The configurations the validation is to refuse.
Refused(c) ==
    \/ c.ListenAddress = ""
    \/ /\ ~c.NoClientAuth
       /\ Missing(c.HostKeyFile) \/ Missing(c.AuthorizedKeysFile)

AfterWin ==
    /\ gameLast.out = "won"
    /\ game.CurrentGame = "guess"
    /\ game'.CurrentGame = "guess"
    /\ gameCount' = gameCount + 1

\* C40: gamesWon increases at most once per started game: once a guessing
\* game is won, a further command sent in that game, before the return to
\* the menu, increases neither gamesWon nor the score.
C40_OneWinPerGame ==
    [][AfterWin =>
          /\ game'.gamesWon = game.gamesWon
          /\ game'.score = game.score]_vars

(***************************************************************************)
(* Repeated calls of Stop.                                                 *)
(***************************************************************************)

\* C38: Stop can be called more than once on the same Server, and on a
\* Server that was never started: no call of Stop panics.
C38_StopNeverPanics == stopPc # "panicked"

(***************************************************************************)
(* The raw connection is closed on every return of handleConnection.       *)
(***************************************************************************)

\* C32: every accepted raw connection is closed by its handleConnection on
\* every path on which it returns: on a handshake failure, where no drain
\* goroutine was started and no channel was served, and after the stream of
\* channel-open events has ended; and it is not closed before.
C32_RawConnectionClosedOnReturn ==
    /\ [](\A c \in DOMAIN conns : conns[c].closed <=> conns[c].pc = "returned")
    /\ [][\A c \in DOMAIN conns :
            HandshakeFails(c) =>
                /\ conns'[c].closed
                /\ conns'[c].drain = "none"
                /\ conns'[c].router = "none"]_vars

\* One connection was closed on its handshake failure, the other after it
\* was served and its channel-open stream ended.
C32_Witness ==
    /\ Len(conns) = 2
    /\ conns[1].closed /\ conns[1].drain = "none"
    /\ conns[2].closed /\ conns[2].drain # "none" /\ conns[2].router # "none"

(***************************************************************************)
(* RegisterCommand while sessions execute commands.                        *)
(***************************************************************************)

\* C39: registering a command at runtime is safe while sessions execute
\* commands: the assignment of RegisterCommand never overlaps a read of the
\* command table by an Execute of another goroutine, and the runtime never
\* ends the process for such an overlap.
C39_NoConcurrentTableAccess ==
    /\ ~(writing.busy /\ \E i \in DOMAIN lookups : lookups[i].busy)
    /\ ~mapFault

(***************************************************************************)
(* Global requests.                                                        *)
(***************************************************************************)

\* The step is an iteration of handleGlobalRequests' loop.
DrainTakes == globalReqs # << >> /\ globalReqs' = Tail(globalReqs)

\* What an iteration adds to the log of the drain goroutine.
Drained == SubSeq(globalLog', Len(globalLog) + 1, Len(globalLog'))

\* The ranks of the requests received, in the order of the log.
RECURSIVE RecvRanks(_)
RecvRanks(log) ==
    IF log = << >> THEN << >>
    ELSE IF Head(log).op = "recv"
         THEN <<Head(log).rank>> \o RecvRanks(Tail(log))
         ELSE RecvRanks(Tail(log))

\* C37: every global request that asks for a reply is answered negatively,
\* and one that does not is not answered; serving it invokes no handler and
\* changes no channel; the requests are served in their order of arrival;
\* and the drain goroutine returns once the connection's stream of global
\* requests has ended, and not before.
C37_GlobalRequestsRefusedInOrder ==
    /\ [][DrainTakes =>
            /\ Drained[1] = GlobalRecv(Head(globalReqs))
            /\ IF Head(globalReqs).wantReply
               THEN Drained = <<Drained[1], GlobalReply(Head(globalReqs), FALSE)>>
               ELSE Len(Drained) = 1
            /\ UNCHANGED <<chanVars, defVars, fsVars, gameVars, chatVars,
                           execVars>>]_vars
    /\ [](RecvRanks(globalLog) = [i \in 1..Len(RecvRanks(globalLog)) |-> i])
    /\ [](conns[1].drain = "returned" => ~conns[1].peer /\ globalReqs = << >>)
    /\ (~conns[1].peer) ~> (conns[1].drain = "returned")

\* Two global requests were refused or passed over in order, a request of
\* the session channel was served meanwhile, and the goroutine returned
\* after the peer left.
C37_Witness ==
    /\ Len(globalLog) = 3
    /\ globalLog[1].op = "recv" /\ globalLog[1].rank = 1
    /\ globalLog[2] = [op |-> "reply", rank |-> 1, ok |-> FALSE]
    /\ globalLog[3].op = "recv" /\ globalLog[3].rank = 2
    /\ events # << >>
    /\ conns[1].drain = "returned"

====
